---- MODULE Spec2Model ----
(***************************************************************************)
(* mailpopbox: the per-connection SMTP state machine (smtp/conn.go), the   *)
(* per-connection POP3 state machine (pop3/conn.go) and the server         *)
(* callbacks they use (smtp.go, pop3.go).                                  *)
(*                                                                         *)
(* A Go string is a sequence of atoms (<<"MAIL", " ", "FROM:", "<", ...>>):*)
(* an atom is a run of characters the code never looks inside.  The atoms  *)
(* " ", "<", ">", "@" and NUL are the characters the code searches for.    *)
(***************************************************************************)
EXTENDS Integers, Sequences, FiniteSets, TLC

(***************************************************************************)
(* Bounds of the model.                                                    *)
(***************************************************************************)
\* longest recipient list a connection accumulates
MaxRcpt == 2
\* number of messages in the maildrop a POP3 session opens
MaxMsgs == 3
\* the SIGHUPs one run of the SMTP server receives, and the connections it accepts
MaxReloads == 2
MaxConns == 2

(***************************************************************************)
(* Strings.                                                                *)
(***************************************************************************)
SP == " "
NUL == "NUL"
NoAddr == <<"nil">>
ParseError == <<"error">>

\* strings.ToUpper on the atoms that occur in command position
UpperTable ==
    ("ehlo" :> "EHLO") @@ ("helo" :> "HELO") @@ ("mail" :> "MAIL") @@
    ("from:" :> "FROM:") @@ ("rcpt" :> "RCPT") @@ ("to:" :> "TO:") @@
    ("data" :> "DATA") @@ ("quit" :> "QUIT") @@ ("noop" :> "NOOP") @@
    ("auth" :> "AUTH") @@ ("rset" :> "RSET") @@ ("starttls" :> "STARTTLS") @@
    ("user" :> "USER") @@ ("pass" :> "PASS") @@ ("stat" :> "STAT") @@
    ("list" :> "LIST") @@ ("retr" :> "RETR") @@ ("dele" :> "DELE") @@
    ("uidl" :> "UIDL") @@ ("capa" :> "CAPA") @@ ("bogus" :> "BOGUS") @@
    ("vrfy" :> "VRFY") @@ ("expn" :> "EXPN") @@ ("help" :> "HELP") @@
    ("Ehlo" :> "EHLO") @@ ("Mail" :> "MAIL") @@ ("From:" :> "FROM:") @@
    ("Rcpt" :> "RCPT") @@ ("Quit" :> "QUIT") @@ ("Retr" :> "RETR") @@ ("Pass" :> "PASS")

\* strings.ToLower on the atoms that occur in a path
LowerTable ==
    ("Smith" :> "smith") @@ ("Jones" :> "jones") @@ ("Green" :> "green") @@
    ("Example.com" :> "example.com") @@ ("Mailbox" :> "mailbox")

ToUpper(s) == [i \in 1..Len(s) |-> IF s[i] \in DOMAIN UpperTable THEN UpperTable[s[i]] ELSE s[i]]

ToLower(s) == [i \in 1..Len(s) |-> IF s[i] \in DOMAIN LowerTable THEN LowerTable[s[i]] ELSE s[i]]

\* length in characters of an atom; only the atoms of a command prefix matter
AtomLen(a) ==
    CASE a \in {"MAIL", "mail", "Mail", "RCPT", "rcpt", "Rcpt", "FROM", "USER", "PASS",
                 "user", "pass", "Pass"} -> 4
      [] a \in {"FROM:", "from:", "From:"} -> 5
      [] a \in {"TO:", "to:", "FR:"} -> 3
      [] a \in {SP, "<", ">", "@"} -> 1
      [] OTHER -> 6

RECURSIVE StrLen(_)
StrLen(s) == IF s = <<>> THEN 0 ELSE AtomLen(Head(s)) + StrLen(Tail(s))

\* strings.Index / strings.LastIndex for a one-character needle, 0 when absent
Index(s, a) == IF \E i \in 1..Len(s) : s[i] = a
                 THEN CHOOSE i \in 1..Len(s) : s[i] = a /\ \A j \in 1..(i-1) : s[j] # a
                 ELSE 0

LastIndex(s, a) == IF \E i \in 1..Len(s) : s[i] = a
                     THEN CHOOSE i \in 1..Len(s) : s[i] = a /\ \A j \in (i+1)..Len(s) : s[j] # a
                     ELSE 0

\* strings.Split(s, sep) for a one-character separator
RECURSIVE Split(_, _)
Split(s, sep) ==
    LET i == Index(s, sep)
    IN  IF i = 0 THEN <<s>>
        ELSE <<SubSeq(s, 1, i-1)>> \o Split(SubSeq(s, i+1, Len(s)), sep)

\* the space-separated words fmt.Sscanf reads with %s verbs
Words(s) == SelectSeq(Split(s, SP), LAMBDA w : w # <<>>)

(***************************************************************************)
(* net/mail.ParseAddress on the forms the servers meet: "<local@domain>"   *)
(* and "local@domain".                                                     *)
(***************************************************************************)
Special == {SP, "<", ">", "@", NUL}

IsAddrSpec(s) == Len(s) = 3 /\ s[2] = "@" /\ s[1] \notin Special /\ s[3] \notin Special

ParseAddress(s) ==
    IF Len(s) = 5 /\ s[1] = "<" /\ s[5] = ">" /\ IsAddrSpec(SubSeq(s, 2, 4))
      THEN SubSeq(s, 2, 4)
      ELSE IF IsAddrSpec(s) THEN s ELSE ParseError

DomainForAddressString(address) ==
    LET domainIdx == LastIndex(address, "@")
    IN  IF domainIdx = 0 THEN <<>> ELSE SubSeq(address, domainIdx + 1, Len(address))

DomainForAddress(addr) == DomainForAddressString(addr)

(***************************************************************************)
(* Configuration (config.go) and the smtpServer callbacks (smtp.go).       *)
(***************************************************************************)
MailboxAccount == <<"mailbox", "@">>

Servers ==
    << [Domain |-> <<"example.com">>, MailboxPassword |-> <<"test">>,
        MaildropPath |-> "drop1",
        BlockedAddresses |-> << <<"Green", "@", "example.com">>,
                                <<"spam", "@", "example.com">> >>],
       [Domain |-> <<"foo.com">>, MailboxPassword |-> <<"pw2">>,
        MaildropPath |-> "drop2",
        BlockedAddresses |-> << >>] >>

NoServer == [Domain |-> <<>>, MailboxPassword |-> <<>>, MaildropPath |-> "",
             BlockedAddresses |-> << >>]

\* the first server entry whose Domain is the address's domain, NoServer for nil
configForAddress(addr) ==
    LET domain == DomainForAddress(addr)
    IN  IF \E i \in 1..Len(Servers) : Servers[i].Domain = domain
          THEN Servers[CHOOSE i \in 1..Len(Servers) :
                         /\ Servers[i].Domain = domain
                         /\ \A j \in 1..(i-1) : Servers[j].Domain # domain]
          ELSE NoServer

maildropForAddress(addr) ==
    LET s == configForAddress(addr)
    IN  IF s # NoServer THEN s.MaildropPath ELSE ""

ReplyOK == 250
ReplyBadSyntax == 501
ReplyBadSequence == 503
ReplyBadMailbox == 550
ReplyMailboxUnallowed == 553

VerifyAddress(addr) ==
    LET s == configForAddress(addr)
    IN  IF s = NoServer THEN ReplyBadMailbox
        ELSE IF \E i \in 1..Len(s.BlockedAddresses) : s.BlockedAddresses[i] = addr
               THEN ReplyMailboxUnallowed
               ELSE ReplyOK

\* Authenticate without the comparison of the domain of authz
Authenticate_anyAuthz(authz, authcid, passwd) ==
    LET authcAddr == ParseAddress(authcid)
        authzAddr == ParseAddress(authz)
        domain == DomainForAddress(authcAddr)
    IN  IF authcAddr = ParseError THEN FALSE
        ELSE IF authz # <<>> /\ authzAddr = ParseError THEN FALSE
        ELSE IF \E i \in 1..Len(Servers) : Servers[i].Domain = domain
          THEN LET s == configForAddress(authcAddr)
               IN  authcid = MailboxAccount \o s.Domain /\ passwd = s.MailboxPassword
          ELSE FALSE

Authenticate(authz, authcid, passwd) ==
    LET authcAddr == ParseAddress(authcid)
        authzAddr == ParseAddress(authz)
        domain == DomainForAddress(authcAddr)
    IN  IF authcAddr = ParseError THEN FALSE
        ELSE IF authz # <<>> /\ authzAddr = ParseError THEN FALSE
        ELSE IF \E i \in 1..Len(Servers) : Servers[i].Domain = domain
          THEN LET s == configForAddress(authcAddr)
                   authOk == authcid = MailboxAccount \o s.Domain /\ passwd = s.MailboxPassword
               IN  IF authzAddr # ParseError
                     THEN authOk /\ DomainForAddress(authzAddr) = domain
                     ELSE authOk
          ELSE FALSE


(***************************************************************************)
(* The SMTP connection (smtp/conn.go).                                     *)
(***************************************************************************)
VARIABLES
    state,      \* conn.state: "New", "Initial", "Mail", "Recipient"
    esmtp,      \* conn.esmtp
    tls,        \* conn.tls # nil
    authc,      \* conn.authc, <<>> when not authenticated
    line,       \* conn.line, the last line read
    ehlo,       \* conn.ehlo
    mailFrom,   \* conn.mailFrom, NoAddr for nil
    rcptTo,     \* conn.rcptTo
    tlsConfig,  \* server.TLSConfig() # nil
    status,     \* "open", "closed" (tp.Close), "panicked" (nil dereference)
    replies,    \* the reply lines written while handling the last line
    handed,     \* the envelopes handed to the server while handling the last line
    verified,   \* the addresses VerifyAddress answered ReplyOK on this connection
    greeted,    \* a HELO/EHLO has succeeded since the accept or the last TLS handshake
    files       \* the maildrop directories: a set of [dir, name, content, size]

\* The POP3 connection (pop3/conn.go).
VARIABLES
    popState,   \* conn.state: "AUTHORIZATION", "TRANSACTION"
    popLine,    \* conn.line
    user,       \* conn.user
    mb,         \* conn.mb: [nil, messages]
    popStatus,  \* "open", "closed" (tp.Close), "panicked" (index out of range)
    popReplies  \* the lines written while handling the last line

popVars == <<popState, popLine, user, mb, popStatus, popReplies>>

\* What happens besides the two connections.
VARIABLES
    arrived,    \* the file names DeliverMessage wrote during the TRANSACTION state of the POP3 session
    call,       \* the arguments of a call of a server callback, NoCall when there is none;
                \* for smtpServer.run the fields of the server
    result      \* what the call returned, NoCall before it returns;
                \* for smtpServer.run the connections it has started

otherVars == <<arrived, call, result>>

NoCall == [fn |-> "none"]

smtpVars == <<state, esmtp, tls, authc, line, ehlo, mailFrom, rcptTo, tlsConfig,
              status, replies, handed, verified, greeted>>

\* the envelope id envelopeID produces (time and random bytes), as its rank in
\* the order of file names: a second message may get the id of the first
EnvelopeIDs == {1}

R(code, text) == [code |-> code, text |-> text]

Reply(code) ==
    CASE code = 250 -> R(250, "OK")
      [] code = 501 -> R(501, "syntax error")
      [] code = 503 -> R(503, "bad sequence of commands")
      [] code = 550 -> R(550, "mailbox unavailable")
      [] code = 553 -> R(553, "mailbox name not allowed")
      [] OTHER -> R(code, "")

Codes(rs) == [i \in 1..Len(rs) |-> rs[i].code]

\* the lines a client sends
SMTPLines ==
    { <<"EHLO", SP, "client.test">>, <<"HELO", SP, "client.test">>,
      <<"helo", SP, "client.test">>, <<"EHLO">>,
      <<"STARTTLS">>,
      <<"AUTH">>, <<"AUTH", SP, "OAUTHBEARER">>, <<"AUTH", SP, "PLAIN">>,
      <<"AUTH", SP, "PLAIN", SP, "b64good">>,
      <<"MAIL", SP, "FROM:", "<", "mailbox", "@", "example.com", ">">>,
      <<"mail", SP, "FROM:", "<", "Smith", "@", "bar.com", ">">>,
      <<"MAIL", SP, "FROM:", "<", "sender", ">">>,
      <<"MAIL", SP, "FR:">>,
      <<"MAIL", SP, "FROMX", "<", "Smith", "@", "bar.com", ">">>,
      <<"RCPT", SP, "TO:", "<", "Jones", "@", "example.com", ">">>,
      <<"RCPT", SP, "TO:", "<", "dest", "@", "another.net", ">">>,
      <<"RCPT", SP, "TO:", "<", "banned.net", ">">>,
      <<"RCPT", SP, "TO:", "Jones", "@", "example.com">>,
      <<"DATA">>, <<"RSET">>, <<"NOOP">>,
      <<"VRFY", SP, "Jones">>, <<"EXPN", SP, "list">>, <<"HELP">>,
      <<"quit">>, <<"BOGUS">>, <<>> }

\* base64.StdEncoding.DecodeString on the lines a client sends after 334
B64 ==
    ("b64good" :> <<NUL, "mailbox", "@", "example.com", NUL, "test">>) @@
    ("b64authz" :> <<"apples", "@", "example.com", NUL, "mailbox", "@", "example.com", NUL, "test">>) @@
    ("b64wrongpw" :> <<NUL, "mailbox", "@", "example.com", NUL, "pw2">>) @@
    ("b64twofields" :> <<NUL>>)

DecodeError == <<"error">>

DecodeString(s) == IF Len(s) = 1 /\ s[1] \in DOMAIN B64 THEN B64[s[1]] ELSE DecodeError

ReadFailed == <<"read error">>

AuthLines == {<<a>> : a \in DOMAIN B64} \cup {<<"this", SP, "isn't", SP, "base64">>, ReadFailed}

\* the message bytes ReadDotBytes returns
DataInputs == {<<"message">>, ReadFailed}

\* the verb the command loop switches on, <<>> when Sscanf fails
Cmd(l) == IF Words(l) = <<>> THEN <<>> ELSE ToUpper(Words(l)[1])

\* the lines the command loop dispatches to one case of its switch
\* the lines that differ from l in the letter case of the verb only: of its
\* first word and, after MAIL and RCPT, of FROM: and TO:
Casings(l) ==
    LET caseOf(a) == {a, ToUpper(<<a>>)[1]}
                     \cup {k \in DOMAIN UpperTable : UpperTable[k] = ToUpper(<<a>>)[1]}
        second == IF Len(l) >= 3 /\ l[2] = SP /\ ToUpper(<<l[1]>>) \in {<<"MAIL">>, <<"RCPT">>}
                    THEN caseOf(l[3]) ELSE {""}
    IN  IF l = <<>> THEN {l}
        ELSE { [i \in 1..Len(l) |-> IF i = 1 THEN a
                                    ELSE IF i = 3 /\ b # "" THEN b ELSE l[i]] :
                 a \in caseOf(l[1]), b \in second }

\* the verb the command switch sees on each line, strings.ToUpper(cmd)
VerbOf == [l \in UNION {Casings(x) : x \in SMTPLines} |-> Cmd(l)]

LinesFor(verbs) == {l \in SMTPLines : Cmd(l) \in verbs}

SMTPVerbs == { <<"QUIT">>, <<"HELO">>, <<"EHLO">>, <<"STARTTLS">>, <<"AUTH">>, <<"MAIL">>,
               <<"RCPT">>, <<"DATA">>, <<"RSET">>, <<"VRFY">>, <<"EXPN">>, <<"NOOP">>,
               <<"HELP">> }

STARTTLSLines == LinesFor({<<"STARTTLS">>})

AUTHLines == LinesFor({<<"AUTH">>})

MAILLines == LinesFor({<<"MAIL">>})

RCPTLines == LinesFor({<<"RCPT">>})

DATALines == LinesFor({<<"DATA">>})

HELOLines == LinesFor({<<"HELO">>, <<"EHLO">>})

\* the connection AcceptConnection builds
smtpAccepted ==
    /\ state = "New"
    /\ esmtp = FALSE
    /\ tls = FALSE
    /\ authc = <<>>
    /\ line = <<>>
    /\ ehlo = <<>>
    /\ mailFrom = NoAddr
    /\ rcptTo = <<>>
    /\ status = "open"
    /\ replies = <<R(220, "greeting")>>
    /\ handed = <<>>
    /\ verified = {}
    /\ greeted = FALSE

\* conn.tp.ReadLine() returned l
ReadLine(l) ==
    /\ status = "open"
    /\ line' = l
    /\ UNCHANGED <<popVars, otherVars>>

\* the prefix of l that is n characters long, <<"?">> when l has no such prefix of atoms
Prefix(l, n) ==
    IF \E k \in 0..Len(l) : StrLen(SubSeq(l, 1, k)) = n
      THEN SubSeq(l, 1, CHOOSE k \in 0..Len(l) : StrLen(SubSeq(l, 1, k)) = n)
      ELSE <<"?">>

parsePath(l, command) ==
    IF StrLen(l) < StrLen(command) THEN [path |-> <<>>, reply |-> Reply(ReplyBadSyntax)]
    ELSE IF ToUpper(command) # ToUpper(Prefix(l, StrLen(command)))
      THEN [path |-> <<>>, reply |-> R(500, "unrecognized command")]
    ELSE LET params == SubSeq(l, Len(Prefix(l, StrLen(command))) + 1, Len(l))
             idx == Index(params, ">")
         IN  IF idx = 0 THEN [path |-> <<>>, reply |-> Reply(ReplyBadSyntax)]
             ELSE [path |-> ToLower(SubSeq(params, 1, idx)), reply |-> Reply(ReplyOK)]


resetBuffers ==
    /\ mailFrom' = NoAddr
    /\ rcptTo' = <<>>

\* doEHLO advertising STARTTLS whenever a TLS configuration exists
EHLOLines_alwaysSTARTTLS ==
    <<R(250, "Hello")>>
    \o (IF tlsConfig THEN <<R(250, "STARTTLS")>> ELSE <<>>)
    \o (IF tls THEN <<R(250, "AUTH PLAIN")>> ELSE <<>>)
    \o <<R(250, "SIZE 40960000")>>

\* the extension lines of the EHLO reply
EHLOLines ==
    <<R(250, "Hello")>>
    \o (IF tlsConfig /\ ~tls THEN <<R(250, "STARTTLS")>> ELSE <<>>)
    \o (IF tls THEN <<R(250, "AUTH PLAIN")>> ELSE <<>>)
    \o <<R(250, "SIZE 40960000")>>

\* case "HELO" falls through to case "EHLO": both set conn.esmtp = true
doEHLO(l) ==
        /\ VerbOf[l] \in {<<"HELO">>, <<"EHLO">>}
        /\ esmtp' = TRUE
        /\ resetBuffers
        /\ IF Len(Words(l)) < 2
             THEN /\ replies' = <<Reply(ReplyBadSyntax)>>
                  /\ UNCHANGED <<ehlo, state, greeted>>
             ELSE /\ ehlo' = Words(l)[2]
                  /\ greeted' = TRUE
                  /\ replies' = IF Words(l)[1] = <<"HELO">> THEN <<R(250, "Hello")>> ELSE EHLOLines
                  /\ state' = "Initial"
        /\ UNCHANGED <<tls, authc, tlsConfig, status, verified, files>>
        /\ handed' = <<>>

doSTARTTLS(l) ==
    \E handshake \in BOOLEAN :
        /\ VerbOf[l] = <<"STARTTLS">>
        /\ IF state # "Initial"
             THEN /\ replies' = <<Reply(ReplyBadSequence)>>
                  /\ UNCHANGED <<state, tls, greeted>>
             ELSE IF ~esmtp \/ ~tlsConfig
               THEN /\ replies' = <<R(500, "unrecognized command")>>
                    /\ UNCHANGED <<state, tls, greeted>>
               ELSE /\ replies' = <<R(220, "initiate TLS connection")>>
                    /\ IF handshake
                         THEN state' = "New" /\ tls' = TRUE /\ greeted' = FALSE
                         ELSE UNCHANGED <<state, tls, greeted>>
        /\ UNCHANGED <<esmtp, authc, ehlo, mailFrom, rcptTo, tlsConfig, status,
                       verified, files>>
        /\ handed' = <<>>

\* doAUTH without the conn.tls == nil test
authResult_noTLS(l, authLine) ==
    LET authBytes == DecodeString(authLine)
        authParts == Split(authBytes, NUL)
    IN  IF state # "Initial" THEN [replies |-> <<Reply(ReplyBadSequence)>>, authc |-> authc]
        ELSE IF authc # <<>> THEN [replies |-> <<R(503, "already authenticated")>>, authc |-> authc]
        ELSE IF Len(Words(l)) < 2 THEN [replies |-> <<Reply(ReplyBadSyntax)>>, authc |-> authc]
        ELSE IF Words(l)[2] # <<"PLAIN">>
          THEN [replies |-> <<R(504, "unrecognized auth type")>>, authc |-> authc]
        ELSE IF authLine = ReadFailed \/ authBytes = DecodeError \/ Len(authParts) # 3
          THEN [replies |-> <<R(334, " "), Reply(ReplyBadSyntax)>>, authc |-> authc]
        ELSE IF ~Authenticate(authParts[1], authParts[2], authParts[3])
          THEN [replies |-> <<R(334, " "), R(535, "invalid credentials")>>, authc |-> authc]
        ELSE [replies |-> <<R(334, " "), Reply(ReplyOK)>>, authc |-> authParts[2]]

\* the replies of doAUTH and the authc it stores, for the line l and the line
\* authLine read after the 334 continuation
authResult(l, authLine) ==
    LET authBytes == DecodeString(authLine)
        authParts == Split(authBytes, NUL)
    IN  IF state # "Initial" \/ ~tls THEN [replies |-> <<Reply(ReplyBadSequence)>>, authc |-> authc]
        ELSE IF authc # <<>> THEN [replies |-> <<R(503, "already authenticated")>>, authc |-> authc]
        ELSE IF Len(Words(l)) < 2 THEN [replies |-> <<Reply(ReplyBadSyntax)>>, authc |-> authc]
        ELSE IF Words(l)[2] # <<"PLAIN">>
          THEN [replies |-> <<R(504, "unrecognized auth type")>>, authc |-> authc]
        ELSE IF authLine = ReadFailed
          THEN [replies |-> <<R(334, " "), Reply(ReplyBadSyntax)>>, authc |-> authc]
        ELSE IF authBytes = DecodeError
          THEN [replies |-> <<R(334, " "), Reply(ReplyBadSyntax)>>, authc |-> authc]
        ELSE IF Len(authParts) # 3
          THEN [replies |-> <<R(334, " "), Reply(ReplyBadSyntax)>>, authc |-> authc]
        ELSE IF ~Authenticate(authParts[1], authParts[2], authParts[3])
          THEN [replies |-> <<R(334, " "), R(535, "invalid credentials")>>, authc |-> authc]
        ELSE [replies |-> <<R(334, " "), Reply(ReplyOK)>>, authc |-> authParts[2]]

doAUTH(l) ==
    \E authLine \in AuthLines :
        /\ VerbOf[l] = <<"AUTH">>
        /\ replies' = authResult(l, authLine).replies
        /\ authc' = authResult(l, authLine).authc
        /\ UNCHANGED <<state, esmtp, tls, ehlo, mailFrom, rcptTo, tlsConfig, status,
                       verified, greeted, files>>
        /\ handed' = <<>>

\* doMAIL without the conn.state != stateInitial test
doMAIL_anyState(l) ==
        /\ VerbOf[l] = <<"MAIL">>
        /\ LET p == parsePath(l, <<"MAIL", SP, "FROM:">>)
           IN  IF p.reply # Reply(ReplyOK)
                 THEN /\ replies' = <<p.reply>>
                      /\ UNCHANGED <<state, mailFrom>>
                 ELSE IF ParseAddress(p.path) = ParseError
                   THEN /\ mailFrom' = NoAddr
                        /\ replies' = <<Reply(ReplyBadSyntax)>>
                        /\ UNCHANGED state
                   ELSE /\ mailFrom' = ParseAddress(p.path)
                        /\ state' = "Mail"
                        /\ replies' = <<Reply(ReplyOK)>>
        /\ UNCHANGED <<esmtp, tls, authc, ehlo, rcptTo, tlsConfig, status, verified,
                       greeted, files>>
        /\ handed' = <<>>

doMAIL(l) ==
        /\ VerbOf[l] = <<"MAIL">>
        /\ IF state # "Initial"
             THEN /\ replies' = <<Reply(ReplyBadSequence)>>
                  /\ UNCHANGED <<state, mailFrom>>
             ELSE LET p == parsePath(l, <<"MAIL", SP, "FROM:">>)
                  IN  IF p.reply # Reply(ReplyOK)
                        THEN /\ replies' = <<p.reply>>
                             /\ UNCHANGED <<state, mailFrom>>
                        ELSE IF ParseAddress(p.path) = ParseError
                          THEN /\ mailFrom' = NoAddr
                               /\ replies' = <<Reply(ReplyBadSyntax)>>
                               /\ UNCHANGED state
                          ELSE /\ mailFrom' = ParseAddress(p.path)
                               /\ state' = "Mail"
                               /\ replies' = <<Reply(ReplyOK)>>
        /\ UNCHANGED <<esmtp, tls, authc, ehlo, rcptTo, tlsConfig, status, verified,
                       greeted, files>>
        /\ handed' = <<>>

\* doRCPT without the return after a reply of VerifyAddress other than ReplyOK
doRCPT_noReturn(l) ==
        /\ VerbOf[l] = <<"RCPT">>
        /\ IF state # "Mail" /\ state # "Recipient"
             THEN /\ replies' = <<Reply(ReplyBadSequence)>>
                  /\ UNCHANGED <<state, rcptTo, verified>>
             ELSE LET p == parsePath(l, <<"RCPT", SP, "TO:">>)
                      address == ParseAddress(p.path)
                  IN  IF p.reply # Reply(ReplyOK)
                        THEN /\ replies' = <<p.reply>>
                             /\ UNCHANGED <<state, rcptTo, verified>>
                        ELSE IF address = ParseError
                          THEN /\ replies' = <<Reply(ReplyBadSyntax)>>
                               /\ UNCHANGED <<state, rcptTo, verified>>
                          ELSE /\ Len(rcptTo) < MaxRcpt
                               /\ rcptTo' = Append(rcptTo, address)
                               /\ state' = "Recipient"
                               /\ IF VerifyAddress(address) # ReplyOK
                                    THEN /\ replies' = <<Reply(VerifyAddress(address)),
                                                         Reply(ReplyOK)>>
                                         /\ UNCHANGED verified
                                    ELSE /\ replies' = <<Reply(ReplyOK)>>
                                         /\ verified' = verified \cup {address}
        /\ UNCHANGED <<esmtp, tls, authc, ehlo, mailFrom, tlsConfig, status, greeted, files>>
        /\ handed' = <<>>

doRCPT(l) ==
        /\ VerbOf[l] = <<"RCPT">>
        /\ IF state # "Mail" /\ state # "Recipient"
             THEN /\ replies' = <<Reply(ReplyBadSequence)>>
                  /\ UNCHANGED <<state, rcptTo, verified>>
             ELSE LET p == parsePath(l, <<"RCPT", SP, "TO:">>)
                      address == ParseAddress(p.path)
                  IN  IF p.reply # Reply(ReplyOK)
                        THEN /\ replies' = <<p.reply>>
                             /\ UNCHANGED <<state, rcptTo, verified>>
                        ELSE IF address = ParseError
                          THEN /\ replies' = <<Reply(ReplyBadSyntax)>>
                               /\ UNCHANGED <<state, rcptTo, verified>>
                          ELSE IF VerifyAddress(address) # ReplyOK
                            THEN /\ replies' = <<Reply(VerifyAddress(address))>>
                                 /\ UNCHANGED <<state, rcptTo, verified>>
                            ELSE /\ Len(rcptTo) < MaxRcpt
                                 /\ rcptTo' = Append(rcptTo, address)
                                 /\ verified' = verified \cup {address}
                                 /\ state' = "Recipient"
                                 /\ replies' = <<Reply(ReplyOK)>>
        /\ UNCHANGED <<esmtp, tls, authc, ehlo, mailFrom, tlsConfig, status, greeted, files>>
        /\ handed' = <<>>

getTransportString == IF ~tls THEN "PLAINTEXT" ELSE "TLS"

\* the fields of the Received: trace
getReceivedInfo(envelope) ==
    [from |-> ehlo,
     with |-> (IF esmtp THEN "E" ELSE "") \o "SMTP" \o (IF tls THEN "S" ELSE ""),
     id |-> envelope.ID,
     for |-> envelope.RcptTo[1],
     using |-> getTransportString]

\* the bytes of a message file: two header lines, then the data
WriteEnvelopeForDelivery(e) ==
    [DeliveredTo |-> e.RcptTo[1], ReturnPath |-> e.MailFrom, Data |-> e.Data]

\* os.FileInfo.Size of a message file, in lines: the two header lines, the
\* Received trace and the lines of the body
FileSize(content) == 3 + Len(content.Data.body)

\* DeliverMessage choosing the maildrop of the last recipient
DeliverMessage_lastRecipient(en, created) ==
    LET maildrop == maildropForAddress(en.RcptTo[Len(en.RcptTo)])
        file == [dir |-> maildrop, name |-> en.ID,
                 content |-> WriteEnvelopeForDelivery(en),
                 size |-> FileSize(WriteEnvelopeForDelivery(en))]
    IN  IF maildrop = "" THEN [reply |-> ReplyBadMailbox, files |-> files]
        ELSE IF ~created THEN [reply |-> ReplyBadMailbox, files |-> files]
        ELSE [reply |-> 0,
              files |-> {f \in files : ~(f.dir = maildrop /\ f.name = en.ID)} \cup {file}]

\* smtpServer.DeliverMessage: the reply (0 for nil) and the maildrop afterwards;
\* created is the outcome of os.Create
DeliverMessage(en, created) ==
    LET maildrop == maildropForAddress(en.RcptTo[1])
        file == [dir |-> maildrop, name |-> en.ID,
                 content |-> WriteEnvelopeForDelivery(en),
                 size |-> FileSize(WriteEnvelopeForDelivery(en))]
    IN  IF maildrop = "" THEN [reply |-> ReplyBadMailbox, files |-> files]
        ELSE IF ~created THEN [reply |-> ReplyBadMailbox, files |-> files]
        ELSE [reply |-> 0,
              files |-> {f \in files : ~(f.dir = maildrop /\ f.name = en.ID)} \cup {file}]

doDATA(l) ==
    \E data \in DataInputs, id \in EnvelopeIDs, created \in BOOLEAN :
        /\ VerbOf[l] = <<"DATA">>
        /\ IF state # "Recipient"
             THEN /\ replies' = <<Reply(ReplyBadSequence)>>
                  /\ handed' = <<>>
                  /\ UNCHANGED <<state, status, files>>
             ELSE IF data = ReadFailed
               THEN /\ replies' = <<R(354, "Start mail input"), R(552, "transaction failed")>>
                    /\ handed' = <<>>
                    /\ UNCHANGED <<state, status, files>>
               ELSE IF mailFrom = NoAddr \/ rcptTo = <<>>
                 \* *conn.mailFrom with a nil pointer, envelope.RcptTo[0] of an empty slice
                 THEN /\ status' = "panicked"
                      /\ replies' = <<R(354, "Start mail input")>>
                      /\ handed' = <<>>
                      /\ UNCHANGED <<state, files>>
                 ELSE LET env0 == [EHLO |-> ehlo, MailFrom |-> mailFrom, RcptTo |-> rcptTo,
                                   ID |-> id, Data |-> <<>>]
                          env == [env0 EXCEPT !.Data = [trace |-> getReceivedInfo(env0),
                                                        body |-> data]]
                          res == DeliverMessage(env, created)
                      IN  /\ handed' = <<[sink |-> "DeliverMessage", env |-> env]>>
                          /\ files' = res.files
                          /\ UNCHANGED status
                          /\ IF res.reply # 0
                               THEN /\ replies' = <<R(354, "Start mail input"), Reply(res.reply)>>
                                    /\ UNCHANGED state
                               ELSE /\ state' = "Initial"
                                    /\ replies' = <<R(354, "Start mail input"), Reply(ReplyOK)>>
        /\ UNCHANGED <<esmtp, tls, authc, ehlo, mailFrom, rcptTo, tlsConfig, verified, greeted>>

\* doRSET also forgetting the authenticated identity
doRSET_clearsAuthc(l) ==
        /\ VerbOf[l] = <<"RSET">>
        /\ state' = "Initial"
        /\ resetBuffers
        /\ authc' = <<>>
        /\ replies' = <<Reply(ReplyOK)>>
        /\ UNCHANGED <<esmtp, tls, ehlo, tlsConfig, status, verified, greeted, files>>
        /\ handed' = <<>>

doRSET(l) ==
        /\ VerbOf[l] = <<"RSET">>
        /\ state' = "Initial"
        /\ resetBuffers
        /\ replies' = <<Reply(ReplyOK)>>
        /\ UNCHANGED <<esmtp, tls, authc, ehlo, tlsConfig, status, verified, greeted, files>>
        /\ handed' = <<>>

connUnchanged ==
    /\ handed' = <<>>
    /\ UNCHANGED <<state, esmtp, tls, authc, ehlo, mailFrom, rcptTo, tlsConfig, verified,
                   greeted, files>>

doQUIT(l) ==
        /\ VerbOf[l] = <<"QUIT">>
        /\ replies' = <<R(221, "Goodbye")>>
        /\ status' = "closed"
        /\ connUnchanged

doVRFY(l) ==
        /\ VerbOf[l] = <<"VRFY">>
        /\ replies' = <<R(252, "I'll do my best")>>
        /\ UNCHANGED status
        /\ connUnchanged

doEXPN(l) ==
        /\ VerbOf[l] = <<"EXPN">>
        /\ replies' = <<R(550, "access denied")>>
        /\ UNCHANGED status
        /\ connUnchanged

doNOOP(l) ==
        /\ VerbOf[l] = <<"NOOP">>
        /\ replies' = <<Reply(ReplyOK)>>
        /\ UNCHANGED status
        /\ connUnchanged

doHELP(l) ==
        /\ VerbOf[l] = <<"HELP">>
        /\ replies' = <<R(250, "https://tools.ietf.org/html/rfc5321")>>
        /\ UNCHANGED status
        /\ connUnchanged

\* fmt.Sscanf(conn.line, "%s", &cmd) fails on a line without a word
badLine(l) ==
        /\ VerbOf[l] = <<>>
        /\ replies' = <<Reply(ReplyBadSyntax)>>
        /\ UNCHANGED status
        /\ connUnchanged

unrecognized(l) ==
        /\ VerbOf[l] # <<>> /\ VerbOf[l] \notin SMTPVerbs
        /\ replies' = <<R(500, "unrecognized command")>>
        /\ UNCHANGED status
        /\ connUnchanged

\* conn.tp.ReadLine() fails: the client went away
readError ==
    /\ status = "open"
    /\ status' = "closed"
    /\ replies' = <<>>
    /\ UNCHANGED <<line, popVars, otherVars>>
    /\ connUnchanged

NextSMTP ==
    \/ \E l \in HELOLines : ReadLine(l) /\ doEHLO(l)
    \/ \E l \in STARTTLSLines : ReadLine(l) /\ doSTARTTLS(l)
    \/ \E l \in AUTHLines : ReadLine(l) /\ doAUTH(l)
    \/ \E l \in MAILLines : ReadLine(l) /\ doMAIL(l)
    \/ \E l \in RCPTLines : ReadLine(l) /\ doRCPT(l)
    \/ \E l \in DATALines : ReadLine(l) /\ doDATA(l)
    \/ \E l \in SMTPLines : ReadLine(l) /\ doRSET(l)
    \/ \E l \in SMTPLines : ReadLine(l) /\ doQUIT(l)
    \/ \E l \in SMTPLines : ReadLine(l) /\ doVRFY(l)
    \/ \E l \in SMTPLines : ReadLine(l) /\ doEXPN(l)
    \/ \E l \in SMTPLines : ReadLine(l) /\ doNOOP(l)
    \/ \E l \in SMTPLines : ReadLine(l) /\ doHELP(l)
    \/ \E l \in SMTPLines : ReadLine(l) /\ badLine(l)
    \/ \E l \in SMTPLines : ReadLine(l) /\ unrecognized(l)
    \/ readError

vars == <<state, esmtp, tls, authc, line, ehlo, mailFrom, rcptTo, tlsConfig,
          status, replies, handed, verified, greeted, files,
          popState, popLine, user, mb, popStatus, popReplies, arrived, call, result>>

(***************************************************************************)
(* The maildrop as the POP3 server sees it (pop3.go).                      *)
(***************************************************************************)
\* a mailbox value for conn.mb == nil
NoMailbox == [nil |-> TRUE, messages |-> <<>>]

\* ioutil.ReadDir: the directory entries sorted by file name
RECURSIVE sortByName(_)
sortByName(S) ==
    IF S = {} THEN <<>>
    ELSE LET first == CHOOSE f \in S : \A g \in S : f.name <= g.name
         IN  <<first>> \o sortByName(S \ {first})

ReadDir(maildrop) == sortByName({f \in files : f.dir = maildrop})

\* pop3Server.openMailbox; readable is the outcome of ioutil.ReadDir
openMailbox(maildrop, readable) ==
    IF ~readable THEN [err |-> "ReadDir failed", mb |-> NoMailbox]
    ELSE LET entries == ReadDir(maildrop)
         IN  [err |-> "",
              mb |-> [nil |-> FALSE,
                      messages |-> [i \in 1..Len(entries) |->
                                       [filename |-> <<maildrop, entries[i].name>>,
                                        index |-> i - 1,
                                        size |-> entries[i].size,
                                        deleted |-> FALSE]]]]

\* OpenMailbox comparing the password with the password of every server entry
OpenMailbox_anyPassword(u, pass, readable) ==
    IF \E i, j \in 1..Len(Servers) :
           u = MailboxAccount \o Servers[i].Domain /\ pass = Servers[j].MailboxPassword
      THEN LET i == CHOOSE i \in 1..Len(Servers) : u = MailboxAccount \o Servers[i].Domain
           IN  openMailbox(Servers[i].MaildropPath, readable)
      ELSE [err |-> "permission denied", mb |-> NoMailbox]

OpenMailbox(u, pass, readable) ==
    IF \E i \in 1..Len(Servers) :
           u = MailboxAccount \o Servers[i].Domain /\ pass = Servers[i].MailboxPassword
      THEN LET i == CHOOSE i \in 1..Len(Servers) :
                      /\ u = MailboxAccount \o Servers[i].Domain
                      /\ pass = Servers[i].MailboxPassword
                      /\ \A j \in 1..(i-1) :
                            ~(u = MailboxAccount \o Servers[j].Domain
                              /\ pass = Servers[j].MailboxPassword)
           IN  openMailbox(Servers[i].MaildropPath, readable)
      ELSE [err |-> "permission denied", mb |-> NoMailbox]

UniqueID(m) == m.filename[2]

ID(m) == m.index + 1

ListMessages(box) == box.messages

\* mailbox.GetMessage: 0 for nil, -1 for an index out of range
GetMessage(box, id) ==
    IF id > Len(box.messages) THEN 0
    ELSE IF id - 1 < 0 THEN -1
    ELSE id

Delete(box, id) == [box EXCEPT !.messages[id].deleted = TRUE]

\* Reset assigning to the loop's copy of each message: no mark is cleared
Reset_onCopy(box) == box

Reset(box) == [box EXCEPT !.messages = [i \in 1..Len(box.messages) |->
                                          [box.messages[i] EXCEPT !.deleted = FALSE]]]

\* Close without the test of message.deleted: every message of the mailbox is removed
Close_everyMessage(box, failed) ==
    {f \in files : ~\E i \in 1..Len(box.messages) :
                       /\ box.messages[i].filename \notin failed
                       /\ box.messages[i].filename = <<f.dir, f.name>>}

\* mailbox.Close: the files left after os.Remove of every deleted message;
\* failed are the file names for which os.Remove returns an error, which
\* Close drops before it returns nil
Close(box, failed) ==
    {f \in files : ~\E i \in 1..Len(box.messages) :
                       /\ box.messages[i].deleted
                       /\ box.messages[i].filename \notin failed
                       /\ box.messages[i].filename = <<f.dir, f.name>>}

\* mailbox.Retrieve: the content os.Open finds, <<>> when the file is gone
Retrieve(box, id) ==
    LET name == box.messages[id].filename
    IN  IF \E f \in files : <<f.dir, f.name>> = name
          THEN <<(CHOOSE f \in files : <<f.dir, f.name>> = name).content>>
          ELSE <<>>

(***************************************************************************)
(* The POP3 connection (pop3/conn.go).                                     *)
(***************************************************************************)
errStateAuth == "not in AUTHORIZATION"
errStateTxn == "not in TRANSACTION"
errSyntax == "syntax error"
errDeletedMsg == "no such message - deleted"

\* a line written to the client: the status indicator, its text, the numbers
\* formatted into it and, for the body of RETR, the file content
PR(kind, text, nums, data) == [kind |-> kind, text |-> text, nums |-> nums, data |-> data]

ok(msg) == PR("+OK", msg, <<>>, <<>>)

err(msg) == PR("-ERR", msg, <<>>, <<>>)

\* the decimal numerals a client sends, and what Sscanf reads from them with %d
Numerals == <<"0", "1", "2", "3", "4", "5">>

IsNumeral(w) == Len(w) = 1 /\ \E i \in 1..Len(Numerals) : Numerals[i] = w[1]

Atoi(w) == (CHOOSE i \in 1..Len(Numerals) : Numerals[i] = w[1]) - 1

\* fmt.Sscanf(conn.line, "%s %d", &cmd, &id): the number of items read and id
scanID(l) ==
    IF Len(Words(l)) >= 2 /\ IsNumeral(Words(l)[2])
      THEN [n |-> 2, id |-> Atoi(Words(l)[2])]
      ELSE [n |-> IF Words(l) = <<>> THEN 0 ELSE 1, id |-> 0]

\* conn.line[n:]
After(l, n) == SubSeq(l, Len(Prefix(l, n)) + 1, Len(l))

\* the message numbers a client names
MsgNumbers == 0..(MaxMsgs + 1)

POP3Lines ==
    { <<"USER", SP, "mailbox", "@", "example.com">>,
      <<"USER", SP, "nobody", "@", "example.com">>,
      <<"USER", SP>>, <<"USER">>,
      <<"PASS", SP, "test">>, <<"PASS", SP, "pw2">>, <<"PASS">>,
      <<"STAT">>, <<"stat">>, <<"LIST">>, <<"RETR">>, <<"DELE", SP, "x">>,
      <<"RSET">>, <<"UIDL">>, <<"CAPA">>, <<"NOOP">>, <<"QUIT">>, <<"BOGUS">>, <<>> }
    \cup {<<verb, SP, Numerals[n + 1]>> : verb \in {"LIST", "RETR", "DELE"}, n \in MsgNumbers}

POP3VerbOf == [l \in UNION {Casings(x) : x \in POP3Lines} |-> Cmd(l)]

POP3LinesFor(verbs) == {l \in POP3Lines : Cmd(l) \in verbs}

POP3Verbs == { <<"QUIT">>, <<"USER">>, <<"PASS">>, <<"STAT">>, <<"LIST">>, <<"RETR">>,
               <<"DELE">>, <<"NOOP">>, <<"RSET">>, <<"UIDL">>, <<"CAPA">> }

USERLines == POP3LinesFor({<<"USER">>})

PASSLines == POP3LinesFor({<<"PASS">>})

STATLines == POP3LinesFor({<<"STAT">>})

LISTLines == POP3LinesFor({<<"LIST">>})

RETRLines == POP3LinesFor({<<"RETR">>})

DELELines == POP3LinesFor({<<"DELE">>})

POP3RSETLines == POP3LinesFor({<<"RSET">>})

UIDLLines == POP3LinesFor({<<"UIDL">>})

POP3QUITLines == POP3LinesFor({<<"QUIT">>})

\* the connection AcceptConnection builds, after its greeting
popAccepted ==
    /\ popState = "AUTHORIZATION"
    /\ popLine = <<>>
    /\ user = <<>>
    /\ mb = NoMailbox
    /\ popStatus = "open"
    /\ popReplies = <<ok("POP3 (mailpopbox) server")>>

\* conn.tp.ReadLine() returned l
popReadLine(l) ==
    /\ popStatus = "open"
    /\ popLine' = l
    /\ UNCHANGED <<smtpVars, otherVars>>

\* doQUIT: conn.mb.Close() returns nil whatever os.Remove returned, so the
\* err != nil branch with "failed to remove some messages" is never taken
pop3_doQUIT(l) ==
    \E failed \in SUBSET {mb.messages[i].filename : i \in 1..Len(mb.messages)} :
        /\ POP3VerbOf[l] = <<"QUIT">>
        /\ files' = IF mb.nil THEN files ELSE Close(mb, failed)
        /\ popReplies' = <<ok("goodbye")>>
        /\ popStatus' = "closed"
        /\ UNCHANGED <<popState, user, mb>>

\* doUSER without the conn.state != stateAuth test
pop3_doUSER_anyState(l) ==
        /\ POP3VerbOf[l] = <<"USER">>
        /\ IF StrLen(l) < 5
             THEN /\ popReplies' = <<err("invalid user")>>
                  /\ UNCHANGED user
             ELSE /\ user' = After(l, 5)
                  /\ popReplies' = <<ok("")>>
        /\ UNCHANGED <<popState, mb, popStatus, files>>

pop3_doUSER(l) ==
        /\ POP3VerbOf[l] = <<"USER">>
        /\ IF popState # "AUTHORIZATION"
             THEN /\ popReplies' = <<err(errStateAuth)>>
                  /\ UNCHANGED user
             ELSE IF StrLen(l) < 5
               THEN /\ popReplies' = <<err("invalid user")>>
                    /\ UNCHANGED user
               ELSE /\ user' = After(l, 5)
                    /\ popReplies' = <<ok("")>>
        /\ UNCHANGED <<popState, mb, popStatus, files>>

pop3_doPASS(l) ==
    \E readable \in BOOLEAN :
        /\ POP3VerbOf[l] = <<"PASS">>
        /\ IF popState # "AUTHORIZATION"
             THEN /\ popReplies' = <<err(errStateAuth)>>
                  /\ UNCHANGED <<popState, mb>>
             ELSE IF Len(user) = 0
               THEN /\ popReplies' = <<err("no USER")>>
                    /\ UNCHANGED <<popState, mb>>
             ELSE IF StrLen(l) < 5
               THEN /\ popReplies' = <<err("invalid pass")>>
                    /\ UNCHANGED <<popState, mb>>
             ELSE LET res == OpenMailbox(user, After(l, 5), readable)
                  IN  IF res.err = ""
                        THEN /\ popState' = "TRANSACTION"
                             /\ mb' = res.mb
                             /\ popReplies' = <<ok("")>>
                        ELSE /\ popReplies' = <<err(res.err)>>
                             /\ UNCHANGED <<popState, mb>>
        /\ UNCHANGED <<user, popStatus, files>>

RECURSIVE statOf(_)
\* the count and the total size of the messages of msgs not marked deleted
statOf(msgs) ==
    IF msgs = <<>> THEN <<0, 0>>
    ELSE LET rest == statOf(Tail(msgs))
         IN  IF Head(msgs).deleted THEN rest
             ELSE <<rest[1] + 1, rest[2] + Head(msgs).size>>

pop3_doSTAT(l) ==
        /\ POP3VerbOf[l] = <<"STAT">>
        /\ popReplies' = IF popState # "TRANSACTION"
                           THEN <<err(errStateTxn)>>
                           ELSE <<PR("+OK", "", statOf(ListMessages(mb)), <<>>)>>
        /\ UNCHANGED <<popState, user, mb, popStatus, files>>

scanLine(m) == PR("line", "", <<ID(m), m.size>>, <<>>)

endOfList == PR(".", "", <<>>, <<>>)

pop3_doLIST(l) ==
        /\ POP3VerbOf[l] = <<"LIST">>
        /\ IF popState # "TRANSACTION"
             THEN /\ popReplies' = <<err(errStateTxn)>>
                  /\ UNCHANGED popStatus
             ELSE IF scanID(l).n = 2
               THEN LET msg == GetMessage(mb, scanID(l).id)
                    IN  IF msg = -1
                          \* mb.messages[id-1] with id < 1
                          THEN /\ popStatus' = "panicked"
                               /\ popReplies' = <<>>
                          ELSE /\ UNCHANGED popStatus
                               /\ popReplies' =
                                     IF msg = 0 THEN <<err("No message with that ID")>>
                                     ELSE IF mb.messages[msg].deleted
                                       THEN <<err(errDeletedMsg)>>
                                       ELSE <<ok("scan listing"), scanLine(mb.messages[msg]),
                                              endOfList>>
               ELSE /\ UNCHANGED popStatus
                    /\ popReplies' =
                          <<ok("scan listing")>>
                          \o [i \in 1..Len(ListMessages(mb)) |-> scanLine(ListMessages(mb)[i])]
                          \o <<endOfList>>
        /\ UNCHANGED <<popState, user, mb, files>>

\* connection.getRequestedMessage: the message (0 for nil) and the reply written
getRequestedMessage(l) ==
    IF scanID(l).n # 2 THEN [msg |-> 0, replies |-> <<err(errSyntax)>>]
    ELSE IF scanID(l).id < 1 THEN [msg |-> 0, replies |-> <<err("invalid message-number")>>]
    ELSE IF GetMessage(mb, scanID(l).id) = 0
      THEN [msg |-> 0, replies |-> <<err("no such message")>>]
      ELSE [msg |-> GetMessage(mb, scanID(l).id), replies |-> <<>>]

pop3_doRETR(l) ==
        /\ POP3VerbOf[l] = <<"RETR">>
        /\ popReplies' =
              IF popState # "TRANSACTION" THEN <<err(errStateTxn)>>
              ELSE LET req == getRequestedMessage(l)
                   IN  IF req.msg = 0 THEN req.replies
                       ELSE IF mb.messages[req.msg].deleted THEN <<err(errDeletedMsg)>>
                       ELSE IF Retrieve(mb, req.msg) = <<>>
                         THEN <<err("no such file or directory")>>
                         ELSE <<PR("+OK", "", <<mb.messages[req.msg].size>>, <<>>),
                                PR("data", "", <<>>, Retrieve(mb, req.msg))>>
        /\ UNCHANGED <<popState, user, mb, popStatus, files>>

pop3_doDELE(l) ==
        /\ POP3VerbOf[l] = <<"DELE">>
        /\ IF popState # "TRANSACTION"
             THEN /\ popReplies' = <<err(errStateTxn)>>
                  /\ UNCHANGED mb
             ELSE LET req == getRequestedMessage(l)
                  IN  IF req.msg = 0
                        THEN /\ popReplies' = req.replies
                             /\ UNCHANGED mb
                        ELSE IF mb.messages[req.msg].deleted
                          THEN /\ popReplies' = <<err(errDeletedMsg)>>
                               /\ UNCHANGED mb
                          ELSE /\ mb' = Delete(mb, req.msg)
                               /\ popReplies' = <<ok("")>>
        /\ UNCHANGED <<popState, user, popStatus, files>>

pop3_doRSET(l) ==
        /\ POP3VerbOf[l] = <<"RSET">>
        /\ IF popState # "TRANSACTION"
             THEN /\ popReplies' = <<err(errStateTxn)>>
                  /\ UNCHANGED mb
             ELSE /\ mb' = Reset(mb)
                  /\ popReplies' = <<ok("")>>
        /\ UNCHANGED <<popState, user, popStatus, files>>

uidLine(m) == PR("line", "", <<ID(m), UniqueID(m)>>, <<>>)

pop3_doUIDL(l) ==
        /\ POP3VerbOf[l] = <<"UIDL">>
        /\ popReplies' =
              IF popState # "TRANSACTION" THEN <<err(errStateTxn)>>
              ELSE LET shown == SelectSeq(ListMessages(mb), LAMBDA m : ~m.deleted)
                   IN  <<ok("unique-id listing")>>
                       \o [i \in 1..Len(shown) |-> uidLine(shown[i])]
                       \o <<endOfList>>
        /\ UNCHANGED <<popState, user, mb, popStatus, files>>

popUnchanged == UNCHANGED <<popState, user, mb, popStatus, files>>

pop3_doCAPA(l) ==
        /\ POP3VerbOf[l] = <<"CAPA">>
        /\ popReplies' = <<ok("capability list"), PR("line", "USER", <<>>, <<>>),
                           PR("line", "UIDL", <<>>, <<>>), endOfList>>
        /\ popUnchanged

pop3_NOOP(l) ==
        /\ POP3VerbOf[l] = <<"NOOP">>
        /\ popReplies' = <<ok("")>>
        /\ popUnchanged

\* fmt.Sscanf(conn.line, "%s", &cmd) fails on a line without a word
pop3_badLine(l) ==
        /\ POP3VerbOf[l] = <<>>
        /\ popReplies' = <<err("invalid command")>>
        /\ popUnchanged

pop3_unknown(l) ==
        /\ POP3VerbOf[l] # <<>> /\ POP3VerbOf[l] \notin POP3Verbs
        /\ popReplies' = <<err("unknown command")>>
        /\ popUnchanged

\* a read error that commits the deletions as QUIT does
pop3_readError_commit ==
    /\ popStatus = "open"
    /\ popStatus' = "closed"
    /\ popReplies' = <<>>
    /\ files' = IF mb.nil THEN files ELSE Close(mb, {})
    /\ UNCHANGED <<popLine, popState, user, mb, smtpVars, otherVars>>

\* conn.tp.ReadLine() fails: the client went away
pop3_readError ==
    /\ popStatus = "open"
    /\ popStatus' = "closed"
    /\ popReplies' = <<>>
    /\ UNCHANGED <<popLine, popState, user, mb, files, smtpVars, otherVars>>

NextPOP3 ==
    \/ \E l \in POP3QUITLines : popReadLine(l) /\ pop3_doQUIT(l)
    \/ \E l \in USERLines : popReadLine(l) /\ pop3_doUSER(l)
    \/ \E l \in PASSLines : popReadLine(l) /\ pop3_doPASS(l)
    \/ \E l \in STATLines : popReadLine(l) /\ pop3_doSTAT(l)
    \/ \E l \in LISTLines : popReadLine(l) /\ pop3_doLIST(l)
    \/ \E l \in RETRLines : popReadLine(l) /\ pop3_doRETR(l)
    \/ \E l \in DELELines : popReadLine(l) /\ pop3_doDELE(l)
    \/ \E l \in POP3RSETLines : popReadLine(l) /\ pop3_doRSET(l)
    \/ \E l \in UIDLLines : popReadLine(l) /\ pop3_doUIDL(l)
    \/ \E l \in POP3Lines : popReadLine(l) /\ pop3_doCAPA(l)
    \/ \E l \in POP3Lines : popReadLine(l) /\ pop3_NOOP(l)
    \/ \E l \in POP3Lines : popReadLine(l) /\ pop3_badLine(l)
    \/ \E l \in POP3Lines : popReadLine(l) /\ pop3_unknown(l)
    \/ pop3_readError

(***************************************************************************)
(* Specifications.                                                         *)
(***************************************************************************)
\* nothing besides the connections has happened
otherIdle == arrived = {} /\ call = NoCall /\ result = NoCall

\* a message file an earlier delivery left in a maildrop: the i-th has i body lines
storedEnvelope(i) ==
    [EHLO |-> <<"client.test">>, MailFrom |-> <<"smith", "@", "bar.com">>,
     RcptTo |-> << <<"jones", "@", "example.com">> >>, ID |-> i,
     Data |-> [trace |-> [from |-> <<"client.test">>, with |-> "ESMTP", id |-> i,
                          for |-> <<"jones", "@", "example.com">>, using |-> "PLAINTEXT"],
               body |-> [k \in 1..i |-> "message"]]]

storedFile(i) ==
    [dir |-> maildropForAddress(storedEnvelope(i).RcptTo[1]), name |-> i,
     content |-> WriteEnvelopeForDelivery(storedEnvelope(i)),
     size |-> FileSize(WriteEnvelopeForDelivery(storedEnvelope(i)))]

\* one SMTP connection, the maildrops empty, no POP3 traffic
InitSMTP ==
    /\ smtpAccepted
    /\ tlsConfig \in BOOLEAN
    /\ files = {}
    /\ popAccepted
    /\ otherIdle

SpecSMTP == InitSMTP /\ [][NextSMTP]_vars

\* one POP3 connection on a maildrop of up to MaxMsgs messages, no SMTP traffic
InitPOP3 ==
    /\ popAccepted
    /\ \E n \in 0..MaxMsgs : files = {storedFile(i) : i \in 1..n}
    /\ smtpAccepted
    /\ tlsConfig = FALSE
    /\ otherIdle

SpecPOP3 == InitPOP3 /\ [][NextPOP3]_vars

\* an envelope that arrives during the POP3 session, for the maildrop of
\* example.com; its id comes from the clock and four random bytes, so it can be
\* a new file name or the name of a file already there
ArrivalIDs == {1, MaxMsgs + 1}

arrivingEnvelope(id) ==
    [storedEnvelope(id) EXCEPT !.MailFrom = <<"brown", "@", "bar.com">>,
                               !.Data.body = <<"later">>]

\* smtpServer.DeliverMessage called for another connection while the POP3
\* session runs
Delivery ==
    \E id \in ArrivalIDs, created \in BOOLEAN :
        LET en == arrivingEnvelope(id)
            res == DeliverMessage(en, created)
        IN  /\ files' = res.files
            /\ arrived' = IF popState = "TRANSACTION" /\ popStatus = "open" /\ res.reply = 0
                            THEN arrived \cup {<<maildropForAddress(en.RcptTo[1]), en.ID>>}
                            ELSE arrived
            /\ UNCHANGED <<smtpVars, popVars, call, result>>

NextDelivery ==
    \/ NextPOP3
    \/ Delivery

\* one POP3 connection and deliveries into the same maildrop
SpecDelivery == InitPOP3 /\ [][NextDelivery]_vars

\* the message file while WriteEnvelopeForDelivery writes into it: its content
\* and its size after n of the three writes (the Delivered-To line, the
\* Return-Path line, the data), n = 0 right after os.Create
WriteEnvelopeForDelivery_partial(e, n) ==
    LET whole == WriteEnvelopeForDelivery(e)
    IN  [content |-> [DeliveredTo |-> IF n >= 1 THEN whole.DeliveredTo ELSE NoAddr,
                      ReturnPath |-> IF n >= 2 THEN whole.ReturnPath ELSE NoAddr,
                      Data |-> IF n >= 3 THEN whole.Data
                               ELSE [trace |-> [from |-> <<>>, with |-> "", id |-> 0,
                                                for |-> NoAddr, using |-> ""],
                                     body |-> <<>>]],
         size |-> IF n >= 3 THEN FileSize(whole) ELSE n]

\* smtpServer.DeliverMessage up to os.Create, which puts the file under its
\* final name, empty, in the maildrop (an existing file is truncated); one
\* delivery writes at a time, under a file name no stored message has (Delivery
\* covers the clash of names)
DeliverMessage_create ==
    \E id \in ArrivalIDs \ (1..MaxMsgs) :
        LET en == arrivingEnvelope(id)
            maildrop == maildropForAddress(en.RcptTo[1])
            p == WriteEnvelopeForDelivery_partial(en, 0)
        IN  /\ maildrop # ""
            /\ ~\E f \in files : f.dir = maildrop /\ f.name = en.ID /\ f.size < 3
            /\ files' = {f \in files : ~(f.dir = maildrop /\ f.name = en.ID)}
                           \cup {[dir |-> maildrop, name |-> en.ID,
                                  content |-> p.content, size |-> p.size]}
            /\ UNCHANGED <<smtpVars, popVars, arrived, call, result>>

\* the next write of WriteEnvelopeForDelivery into a file DeliverMessage has
\* created: a file of fewer than three lines is one still being written. A
\* delivery that is interrupted takes no further step.
DeliverMessage_write ==
    \E f \in files :
        /\ f.size < 3
        /\ LET p == WriteEnvelopeForDelivery_partial(arrivingEnvelope(f.name), f.size + 1)
           IN  files' = (files \ {f}) \cup {[f EXCEPT !.content = p.content, !.size = p.size]}
        /\ UNCHANGED <<smtpVars, popVars, arrived, call, result>>

NextWriting ==
    \/ NextPOP3
    \/ DeliverMessage_create
    \/ DeliverMessage_write

\* one POP3 connection and deliveries that write their files step by step
SpecWriting == InitPOP3 /\ [][NextWriting]_vars

\* the user names and passwords a client presents
Accounts ==
    { <<"mailbox", "@", "example.com">>, <<"mailbox", "@", "foo.com">>,
      <<"mailbox", "@", "bar.com">>, <<"nobody", "@", "example.com">>,
      <<"mailbox", "@", "EXAMPLE.COM">>, <<"mailbox", "@">>, <<"example.com">>, <<>> }

Passwords == { <<"test">>, <<"pw2">>, <<"TEST">>, <<"test", SP>>, <<>> }

\* the authorization identities of AUTH PLAIN
Authzs ==
    { <<>>, <<"mailbox", "@", "example.com">>, <<"jones", "@", "example.com">>,
      <<"<", "jones", "@", "example.com", ">">>, <<"jones", "@", "foo.com">>,
      <<"jones", "@", "bar.com">>, <<"jones">>, <<"@", "example.com">> }

\* the envelopes handed to DeliverMessage: the first recipient in one of the
\* configured domains or in none, further recipients in other domains
DeliveryEnvelopes ==
    { [storedEnvelope(id) EXCEPT !.RcptTo = rcpts] :
        id \in ArrivalIDs,
        rcpts \in { << <<"jones", "@", "example.com">> >>,
                    << <<"jones", "@", "example.com">>, <<"brown", "@", "foo.com">> >>,
                    << <<"brown", "@", "foo.com">>, <<"jones", "@", "example.com">> >>,
                    << <<"dest", "@", "another.net">> >>,
                    << <<"dest", "@", "another.net">>, <<"jones", "@", "example.com">> >>,
                    << <<"jones", "@", "EXAMPLE.COM">> >> } }

\* sendAsSubject, `(?i)\[sendas:\s*([a-zA-Z0-9\.\-_]+)\]`, as FindSubmatchIndex
\* applies it to a header line: the leftmost match, as the position of the
\* opening atom (s0), the position after the closing bracket (s1) and the
\* captured local part (user); s0 = 0 when nothing matches (Go's nil)
sendAsSubject(header) ==
    LET opening == {"[sendas:", "[SendAs:"}
        word == {"source", "other", "relay", "msg", "text", "more", "mailbox", "valid",
                 "example.com", "dest.xyz", "foo.com", "Box"}
        capture(i) == CHOOSE j \in (i+1)..Len(header) : \A k \in (i+1)..(j-1) : header[k] = SP
                                                     /\ header[j] # SP
        matches(i) == /\ header[i] \in opening
                      /\ \E j \in (i+1)..(Len(header)-1) :
                            /\ \A k \in (i+1)..(j-1) : header[k] = SP
                            /\ header[j] \in word
                            /\ header[j+1] = "]"
        starts == {i \in 1..Len(header) : matches(i)}
    IN  IF starts = {} THEN [s0 |-> 0, s1 |-> 0, user |-> ""]
        ELSE LET i == CHOOSE m \in starts : \A n \in starts : m <= n
             IN  [s0 |-> i, s1 |-> capture(i) + 2, user |-> header[capture(i)]]

\* smtpServer.handleSendAs: the envelope RelayMessage hands to the MTA.
\* Positions are counted from 1, so Go's index 0 is 1 here and Go's -1 is 0.
handleSendAs(en, authcName) ==
    LET data == en.Data
        \* bytes.Index(en.Data, "\n\n")
        headerIdx == IF \E i \in 1..(Len(data)-1) : data[i] = "\n" /\ data[i+1] = "\n"
                       THEN CHOOSE i \in 1..(Len(data)-1) :
                              /\ data[i] = "\n" /\ data[i+1] = "\n"
                              /\ \A j \in 1..(i-1) : ~(data[j] = "\n" /\ data[j+1] = "\n")
                       ELSE 0
        \* bytes.SplitAfter(s, "\n")
        RECURSIVE SplitAfter(_)
        SplitAfter(b) == IF Index(b, "\n") = 0 THEN <<b>>
                         ELSE <<SubSeq(b, 1, Index(b, "\n"))>>
                              \o SplitAfter(SubSeq(b, Index(b, "\n") + 1, Len(b)))
        headers == SplitAfter(SubSeq(data, 1, headerIdx - 1))
        HasPrefix(h, name) == h # <<>> /\ h[1] = name
        \* var fromIdx, subjectIdx int: zero, Go's first index, when no line has the prefix
        lastWith(name) == IF \E i \in 1..Len(headers) : HasPrefix(headers[i], name)
                            THEN CHOOSE i \in 1..Len(headers) :
                                   /\ HasPrefix(headers[i], name)
                                   /\ \A j \in (i+1)..Len(headers) : ~HasPrefix(headers[j], name)
                            ELSE 1
        fromIdx == lastWith("From:")
        subjectIdx == lastWith("Subject:")
        sendAs == sendAsSubject(headers[subjectIdx])
        sendAsAddress == <<sendAs.user>> \o <<"@">> \o DomainForAddressString(authcName)
        written(i) == IF i = subjectIdx
                        THEN SubSeq(headers[i], 1, sendAs.s0 - 1)
                             \o SubSeq(headers[i], sendAs.s1, Len(headers[i]))
                      ELSE IF i = fromIdx
                        THEN SubSeq(headers[i], 1, LastIndex(headers[i], "<"))
                             \o sendAsAddress \o <<">", "\n">>
                      ELSE headers[i]
        RECURSIVE buf(_)
        buf(n) == IF n = 0 THEN <<>> ELSE buf(n - 1) \o written(n)
    IN  IF headerIdx = 0 THEN en
        ELSE IF sendAs.s0 = 0 THEN en
        ELSE [en EXCEPT !.Data = buf(Len(headers)) \o SubSeq(data, headerIdx, Len(data)),
                        !.MailFrom = sendAsAddress]

\* the submitted messages: up to three different header lines in any
\* order, a blank line and a body, or one header line and no blank line
SendAsMessages ==
    LET lines == { <<"Received:", "msg">>,
                   <<"From:", "<", "mailbox", "@", "example.com", ">">>,
                   <<"From:", "Box", "<", "mailbox", "@", "example.com", ">", "(", "Box", ")">>,
                   <<"From:", "mailbox", "@", "example.com">>,
                   <<"Subject:", "relay">>,
                   <<"Subject:", "relay", "[sendas:", "source", "]">>,
                   <<"Subject:", "[SendAs:", SP, "source", "]", "[sendas:", "other", "]">>,
                   <<"Subject:", "[sendas:", "]", "[sendas:", "a b", "]">>,
                   <<"X-Note:", "[sendas:", "other", "]">> }
        bodies == { <<"text">>, <<"text", "\n", "\n", "more">> }
    IN  { l \o <<"\n">> \o b : l \in lines, b \in bodies }
        \cup { l \o <<"\n", "\n">> \o b : l \in lines, b \in bodies }
        \cup UNION { { l1 \o <<"\n">> \o l2 \o <<"\n", "\n">> \o b :
                          l2 \in lines \ {l1}, b \in bodies } : l1 \in lines }
        \cup UNION { UNION { { l1 \o <<"\n">> \o l2 \o <<"\n">> \o l3 \o <<"\n", "\n">> \o b :
                                  l3 \in lines \ {l1, l2}, b \in bodies } :
                                l2 \in lines \ {l1} } : l1 \in lines }

\* the RCPT lines of an unauthenticated session whose address reaches VerifyAddress
RecipientLines ==
    { <<"RCPT", SP, "TO:", "<", local, "@", domain, ">">> :
        local \in {"Jones", "Green", "green", "spam"},
        domain \in {"example.com", "Example.com", "foo.com", "another.net"} }

\* a call of pop3Server.OpenMailbox, of smtpServer.Authenticate, of
\* smtpServer.DeliverMessage, of smtpServer.RelayMessage or of
\* smtpServer.VerifyAddress, on maildrops that hold messages
InitCallbacks ==
    /\ smtpAccepted
    /\ tlsConfig = FALSE
    /\ popAccepted
    /\ arrived = {}
    /\ \E n \in 0..MaxMsgs, k \in 0..1 :
          files = {storedFile(i) : i \in 1..n}
                  \cup {[storedFile(i) EXCEPT !.dir = Servers[2].MaildropPath] : i \in 1..k}
    /\ call \in [fn : {"OpenMailbox"}, user : Accounts, pass : Passwords]
              \cup [fn : {"Authenticate"}, authz : Authzs, authc : Accounts, passwd : Passwords]
              \cup [fn : {"DeliverMessage"}, env : DeliveryEnvelopes]
              \cup [fn : {"RelayMessage"},
                    env : {[storedEnvelope(1) EXCEPT
                              !.MailFrom = <<"mailbox", "@", "example.com">>,
                              !.RcptTo = << <<"valid", "@", "dest.xyz">> >>,
                              !.Data = d] : d \in SendAsMessages},
                    authc : {<<"mailbox", "@", "example.com">>, <<"mailbox", "@", "foo.com">>}]
              \cup [fn : {"VerifyAddress"}, line : RecipientLines]
    /\ result = NoCall

callOpenMailbox ==
    \E readable \in BOOLEAN :
        /\ call.fn = "OpenMailbox"
        /\ result = NoCall
        /\ result' = [fn |-> "OpenMailbox", readable |-> readable,
                      out |-> OpenMailbox(call.user, call.pass, readable)]
        /\ UNCHANGED <<smtpVars, popVars, files, arrived, call>>

callAuthenticate ==
    /\ call.fn = "Authenticate"
    /\ result = NoCall
    /\ result' = [fn |-> "Authenticate",
                  out |-> Authenticate(call.authz, call.authc, call.passwd)]
    /\ UNCHANGED <<smtpVars, popVars, files, arrived, call>>

callDeliverMessage ==
    \E created \in BOOLEAN :
        /\ call.fn = "DeliverMessage"
        /\ result = NoCall
        /\ result' = [fn |-> "DeliverMessage", created |-> created,
                      out |-> DeliverMessage(call.env, created).reply]
        /\ files' = DeliverMessage(call.env, created).files
        /\ UNCHANGED <<smtpVars, popVars, arrived, call>>

\* smtpServer.RelayMessage: result is the envelope given to mta.RelayMessage
callRelayMessage ==
    /\ call.fn = "RelayMessage"
    /\ result = NoCall
    /\ result' = [fn |-> "RelayMessage", out |-> handleSendAs(call.env, call.authc)]
    /\ UNCHANGED <<smtpVars, popVars, files, arrived, call>>

\* doRCPT on an unauthenticated session in state Mail, up to its call of
\* VerifyAddress: result is the reply of VerifyAddress
callVerifyAddress ==
    /\ call.fn = "VerifyAddress"
    /\ result = NoCall
    /\ result' = [fn |-> "VerifyAddress",
                  out |-> VerifyAddress(ParseAddress(parsePath(call.line,
                                                               <<"RCPT", SP, "TO:">>).path))]
    /\ UNCHANGED <<smtpVars, popVars, files, arrived, call>>

NextCallbacks ==
    \/ callOpenMailbox
    \/ callAuthenticate
    \/ callDeliverMessage
    \/ callRelayMessage
    \/ callVerifyAddress

SpecCallbacks == InitCallbacks /\ [][NextCallbacks]_vars

(***************************************************************************)
(* The MTA of the smtp package.  call holds the envelope RelayMessage was  *)
(* given; result holds the progress of its loop: the index of the next     *)
(* recipient, what happened for the recipients before it, and whether the  *)
(* loop is running, done, or ended by a panic.                             *)
(***************************************************************************)
\* the steps of relayMessageToHost that can fail, by the text it reports
RelayErrors ==
    { "failed to dial host", "failed to HELO", "failed to STARTTLS", "failed MAIL FROM",
      "failed to RCPT TO", "failed to DATA", "failed to write DATA", "failed to close DATA" }

\* what happens for one recipient: the message is relayed, net.LookupMX fails,
\* net.LookupMX returns no record and no error, or a step of the relay fails
RelayOutcomes == {"sent", "failed to lookup MX records", "no MX records"} \cup RelayErrors

\* the envelopes handed to the MTA: a sender of a configured domain, one to
\* MaxRcpt recipients elsewhere
RelayEnvelopes ==
    { [storedEnvelope(1) EXCEPT !.MailFrom = from, !.RcptTo = rcpts] :
        from \in { <<"mailbox", "@", "example.com">>, <<"sales", "@", "foo.com">> },
        rcpts \in UNION { [1..n -> { <<"to", "@", "receive.net">>, <<"cc", "@", "other.org">> }] :
                            n \in 1..MaxRcpt } }

\* deliverRelayFailure addressing the report to the failed recipient
deliverRelayFailure_toRecipient(env, to, errorStr, id) ==
    [EHLO |-> <<>>,
     MailFrom |-> MailboxAccount \o DomainForAddress(env.MailFrom),
     RcptTo |-> <<to>>,
     ID |-> id,
     Data |-> [trace |-> [failed |-> to, error |-> errorStr, original |-> env.ID],
               body |-> <<env.Data>>]]

\* the envelope mta.deliverRelayFailure builds and hands to DeliverMessage: the
\* report names the recipient and the error and carries the original data
deliverRelayFailure(env, to, errorStr, id) ==
    [EHLO |-> <<>>,
     MailFrom |-> MailboxAccount \o DomainForAddress(env.MailFrom),
     RcptTo |-> <<env.MailFrom>>,
     ID |-> id,
     Data |-> [trace |-> [failed |-> to, error |-> errorStr, original |-> env.ID],
               body |-> <<env.Data>>]]

InitRelay ==
    /\ smtpAccepted
    /\ tlsConfig = FALSE
    /\ popAccepted
    /\ arrived = {}
    /\ files = {}
    /\ call \in [fn : {"RelayMessage"}, env : RelayEnvelopes]
    /\ result = [fn |-> "RelayMessage", next |-> 1, events |-> <<>>, status |-> "running"]

\* one turn of the loop of mta.RelayMessage: the MX lookup and
\* relayMessageToHost for the next recipient
RelayMessage ==
    \E outcome \in RelayOutcomes, id \in EnvelopeIDs, created \in BOOLEAN :
        LET env == call.env
            to == env.RcptTo[result.next]
            last == result.next = Len(env.RcptTo)
            failure == deliverRelayFailure(env, to, outcome, id)
            event(dsn) == [to |-> to, outcome |-> outcome, dsn |-> dsn]
        IN  /\ call.fn = "RelayMessage"
            /\ result.status = "running"
            /\ IF outcome = "sent"
                 THEN /\ result' = [result EXCEPT !.events = Append(@, event(<<>>)),
                                                  !.next = @ + 1,
                                                  !.status = IF last THEN "done" ELSE @]
                      /\ UNCHANGED files
                 ELSE IF outcome = "no MX records"
                   \* sendErr.Error() with a nil error
                   THEN /\ result' = [result EXCEPT !.events = Append(@, event(<<>>)),
                                                    !.status = "panicked"]
                        /\ UNCHANGED files
                 ELSE IF outcome = "failed to lookup MX records"
                   \* the return inside the loop
                   THEN /\ result' = [result EXCEPT !.events = Append(@, event(<<failure>>)),
                                                    !.status = "done"]
                        /\ files' = DeliverMessage(failure, created).files
                   ELSE /\ result' = [result EXCEPT !.events = Append(@, event(<<failure>>)),
                                                    !.next = @ + 1,
                                                    !.status = IF last THEN "done" ELSE @]
                        /\ files' = DeliverMessage(failure, created).files
            /\ UNCHANGED <<smtpVars, popVars, arrived, call>>

SpecRelay == InitRelay /\ [][RelayMessage]_vars

\* the goroutine smtpServer.RelayMessage starts is scheduled
SpecRelayFair == SpecRelay /\ WF_vars(RelayMessage)

(***************************************************************************)
(* Properties of the SMTP connection.                                      *)
(*                                                                         *)
(* Every handled line writes at least one reply and stores the line, so a  *)
(* step with line' \in L and replies' # <<>> is the command loop handling  *)
(* a line of L.  Each reachable connection state is entered after NOOP     *)
(* (250) and after VRFY (252), so for every line at least one of the steps *)
(* handling it changes the variables and is seen by an action property.    *)
(***************************************************************************)
Handled(L) == line' \in L /\ replies' # <<>>

Range(f) == {f[i] : i \in DOMAIN f}

LastCode(rs) == rs[Len(rs)].code

\* the address a MAIL or RCPT line carries, ParseError when it carries none
pathOf(l, command) ==
    LET p == parsePath(l, command)
    IN  IF p.reply = Reply(ReplyOK) THEN ParseAddress(p.path) ELSE ParseError

mailPath(l) == pathOf(l, <<"MAIL", SP, "FROM:">>)

rcptPath(l) == pathOf(l, <<"RCPT", SP, "TO:">>)

C1_OutOfSequence ==
    \/ Handled(MAILLines) /\ state # "Initial"
    \/ Handled(RCPTLines) /\ state \notin {"Mail", "Recipient"}
    \/ Handled(DATALines) /\ state # "Recipient"

\* C1: a MAIL handled in a state other than Initial, a RCPT handled in a state
\* other than Mail or Recipient and a DATA handled in a state other than
\* Recipient are answered with the single reply 503 and leave state, mailFrom
\* and rcptTo as they were; so none of them is accepted out of sequence.
C1_Sequencing ==
    [][C1_OutOfSequence =>
          /\ Codes(replies') = <<503>>
          /\ UNCHANGED <<state, mailFrom, rcptTo>>]_vars

\* MAIL refused inside a transaction that already has a recipient
C1_Witness ==
    /\ line \in MAILLines
    /\ state = "Recipient"
    /\ rcptTo # <<>>
    /\ Codes(replies) = <<503>>

\* C2: every envelope handed to the delivery sink has a mailFrom, at least one
\* recipient, and only recipients for which VerifyAddress answered ReplyOK
\* earlier on this connection, whatever lines came before (a HELO/EHLO without
\* a name, a refused RCPT).
C2_EnvelopeInvariant ==
    \A i \in 1..Len(handed) :
        LET env == handed[i].env
        IN  /\ env.MailFrom # NoAddr
            /\ Len(env.RcptTo) >= 1
            /\ \A j \in 1..Len(env.RcptTo) : env.RcptTo[j] \in verified

\* an envelope with two recipients was handed over
C2_Witness ==
    /\ line \in DATALines
    /\ Len(handed) = 1
    /\ Len(handed[1].env.RcptTo) = 2
    /\ Codes(replies) = <<354, 250>>

\* C3: without a completed AUTH, a MAIL FROM with an address of a configured
\* domain is answered 550 and the state stays Initial; on an authenticated
\* session MAIL FROM:<authc> is answered 250 and every other MAIL FROM 550.
C3_RelayRequiresAuth ==
    [][(Handled(MAILLines) /\ state = "Initial" /\ mailPath(line') # ParseError) =>
          IF authc = <<>>
            THEN (configForAddress(mailPath(line')) # NoServer =>
                     Codes(replies') = <<550>> /\ state' = "Initial")
            ELSE IF mailPath(line') = authc
              THEN Codes(replies') = <<250>> /\ state' = "Mail"
              ELSE Codes(replies') = <<550>> /\ state' = "Initial"]_vars

\* C4: on an authenticated session a RCPT TO with an address of a configured
\* domain is answered 550 and not appended to rcptTo, and one with an address
\* outside every configured domain is answered 250.
C4_NoInternalRelay ==
    [][(Handled(RCPTLines) /\ authc # <<>> /\ state \in {"Mail", "Recipient"}
          /\ rcptPath(line') # ParseError) =>
          IF configForAddress(rcptPath(line')) # NoServer
            THEN Codes(replies') = <<550>> /\ rcptTo' = rcptTo
            ELSE Codes(replies') = <<250>>]_vars

\* C5: a DATA whose message was read and whose handler ran to its end hands
\* exactly one envelope to exactly one sink: DeliverMessage on an
\* unauthenticated session (answering its reply, or 250 when it has none),
\* RelayMessage on an authenticated one (answering 250).
C5_DataDispatch ==
    [][(Handled(DATALines) /\ state = "Recipient" /\ status' = "open"
          /\ Codes(replies') # <<354, 552>>) =>
          /\ Len(handed') = 1
          /\ handed'[1].sink = (IF authc = <<>> THEN "DeliverMessage" ELSE "RelayMessage")
          /\ Len(replies') = 2
          /\ authc # <<>> => LastCode(replies') = 250]_vars

\* C6: a non-empty authc implies that TLS is active; an AUTH handled while TLS
\* is not active or the state is not Initial is answered with the single reply
\* 503 and leaves authc as it was.
C6_AuthOnlyOverTLS ==
    /\ [](authc # <<>> => tls)
    /\ [][(Handled(AUTHLines) /\ (~tls \/ state # "Initial")) =>
             /\ Codes(replies') = <<503>>
             /\ UNCHANGED authc]_vars

\* an AUTH refused without TLS, after the greeting
C6_Witness ==
    /\ line \in AUTHLines
    /\ ~tls
    /\ state = "Initial"
    /\ authc = <<>>
    /\ Codes(replies) = <<503>>

\* C7: an AUTH PLAIN handled over TLS in state Initial: once authenticated it
\* is answered 503; before, valid credentials are answered 235 and set authc,
\* in the 334 form and in the initial-response form; a mismatch is answered
\* 535 and a malformed response 501, and both leave authc empty and the state
\* Initial.
C7_AuthPlain ==
    [][(Handled(AUTHLines) /\ state = "Initial" /\ tls) =>
          IF authc # <<>>
            THEN Codes(replies') = <<503>> /\ UNCHANGED authc
            ELSE /\ LastCode(replies') \in {235, 535, 501, 504}
                 /\ LastCode(replies') = 235 <=> authc' # <<>>
                 /\ state' = "Initial"
                 /\ line' = <<"AUTH", SP, "PLAIN", SP, "b64good">> =>
                        /\ Codes(replies') = <<235>>
                        /\ authc' = <<"mailbox", "@", "example.com">>]_vars

\* C8: a successful STARTTLS handshake sets the state to New, and from then
\* until a HELO/EHLO succeeds every MAIL, RCPT, DATA and AUTH is answered 503.
C8_StartTLSResets ==
    [][/\ (Handled(STARTTLSLines) /\ ~tls /\ tls') => state' = "New"
       /\ (Handled(MAILLines \cup RCPTLines \cup DATALines \cup AUTHLines)
             /\ tls /\ ~greeted) => Codes(replies') = <<503>>]_vars

\* C9: the 250 reply to EHLO lists STARTTLS exactly when the server has a TLS
\* configuration and TLS is not active on the connection, and lists AUTH PLAIN
\* exactly when TLS is active.
C9_EhloAdvertisement ==
    [][(Handled(HELOLines) /\ Cmd(line') = <<"EHLO">> /\ replies'[1].code = 250) =>
          /\ R(250, "STARTTLS") \in Range(replies') <=> (tlsConfig /\ ~tls)
          /\ R(250, "AUTH PLAIN") \in Range(replies') <=> tls]_vars

\* the EHLO reply on the TLS channel: AUTH PLAIN and no STARTTLS
C9_Witness ==
    /\ Cmd(line) = <<"EHLO">>
    /\ tls
    /\ tlsConfig
    /\ R(250, "AUTH PLAIN") \in Range(replies)
    /\ R(250, "STARTTLS") \notin Range(replies)

(***************************************************************************)
(* Properties of the POP3 connection.  A step with popLine' \in L and      *)
(* popReplies' # <<>> is the command loop handling a line of L.            *)
(***************************************************************************)
popHandled(L) == popLine' \in L /\ popReplies' # <<>>

TxnLines == STATLines \cup LISTLines \cup RETRLines \cup DELELines
            \cup POP3RSETLines \cup UIDLLines

\* the single line -ERR msg
IsErr(rs, msg) == Len(rs) = 1 /\ rs[1].kind = "-ERR" /\ rs[1].text = msg

\* C10: USER and PASS handled outside AUTHORIZATION are answered -ERR not in
\* AUTHORIZATION, and STAT, LIST, RETR, DELE, RSET and UIDL handled outside
\* TRANSACTION are answered -ERR not in TRANSACTION; such a step changes
\* neither the state nor the mailbox with its deletion marks.  PASS with no
\* stored user is answered -ERR.  The state changes only from AUTHORIZATION to
\* TRANSACTION, by a PASS whose user and password OpenMailbox accepts, and a
\* PASS answered -ERR leaves the state as it was.
C10_StateDiscipline ==
    [][/\ (popHandled(USERLines \cup PASSLines) /\ popState # "AUTHORIZATION") =>
             /\ IsErr(popReplies', errStateAuth)
             /\ UNCHANGED <<popState, mb, user>>
       /\ (popHandled(TxnLines) /\ popState # "TRANSACTION") =>
             /\ IsErr(popReplies', errStateTxn)
             /\ UNCHANGED <<popState, mb, user>>
       /\ (popHandled(PASSLines) /\ user = <<>>) =>
             /\ popReplies'[1].kind = "-ERR"
             /\ UNCHANGED <<popState, mb>>
       /\ popState' # popState =>
             /\ popState = "AUTHORIZATION" /\ popState' = "TRANSACTION"
             /\ popHandled(PASSLines)
             /\ user # <<>>
             /\ OpenMailbox(user, After(popLine', 5), TRUE).err = ""
             /\ popReplies' = <<ok("")>>
             /\ mb' = OpenMailbox(user, After(popLine', 5), TRUE).mb
       /\ (popHandled(PASSLines) /\ popReplies'[1].kind = "-ERR") =>
             UNCHANGED <<popState, mb>>]_vars

\* USER refused in TRANSACTION while a message is marked deleted
C10_Witness ==
    /\ popState = "TRANSACTION"
    /\ popLine \in USERLines
    /\ IsErr(popReplies, errStateAuth)
    /\ \E i \in 1..Len(mb.messages) : mb.messages[i].deleted

\* the message numbers the lines of a multi-line reply name
listedIDs(rs) == {rs[j].nums[1] : j \in {i \in 1..Len(rs) : rs[i].kind = "line"}}

\* the numbers of the messages of the mailbox not marked deleted
visibleIDs(box) == {i \in 1..Len(box.messages) : ~box.messages[i].deleted}

RECURSIVE visibleSize(_, _)
\* the sum of the sizes of the first n messages that are not marked deleted
visibleSize(box, n) ==
    IF n = 0 THEN 0
    ELSE visibleSize(box, n - 1)
         + (IF box.messages[n].deleted THEN 0 ELSE box.messages[n].size)

\* the lines LIST n, RETR n and DELE n
NumberedLines(n) == {<<verb, SP, Numerals[n + 1]>> : verb \in {"LIST", "RETR", "DELE"}}

\* C11: in TRANSACTION a message marked deleted is invisible: the multi-line
\* LIST and UIDL list exactly the numbers of the messages not marked, STAT
\* answers their count and the sum of their sizes, and LIST n, RETR n and
\* DELE n on a marked message are answered -ERR.
C11_DeletedInvisible ==
    [][popState = "TRANSACTION" =>
          /\ popHandled({<<"LIST">>}) => listedIDs(popReplies') = visibleIDs(mb)
          /\ popHandled(UIDLLines) => listedIDs(popReplies') = visibleIDs(mb)
          /\ popHandled(STATLines) =>
                popReplies'[1].nums = <<Cardinality(visibleIDs(mb)),
                                        visibleSize(mb, Len(mb.messages))>>
          /\ \A n \in 1..Len(mb.messages) :
                (mb.messages[n].deleted /\ popHandled(NumberedLines(n))) =>
                    popReplies'[1].kind = "-ERR"]_vars

\* the mailbox has no deletion mark
Unmarked(box) == visibleIDs(box) = 1..Len(box.messages)

\* C12: RSET in TRANSACTION is answered +OK, leaves no message marked deleted
\* and removes no file; the steps of a session change nothing of the mailbox
\* but its marks, and the mailbox PASS opens has none, so after RSET the
\* mailbox is the one that was opened; STAT and LIST on a mailbox without
\* marks answer all its messages; and QUIT on a mailbox without marks (DELE,
\* RSET, QUIT) removes no file.
C12_ResetClearsMarks ==
    [][/\ (popHandled(POP3RSETLines) /\ popState = "TRANSACTION") =>
             /\ popReplies' = <<ok("")>>
             /\ Unmarked(mb')
             /\ files' = files
       /\ popState = "TRANSACTION" =>
             [mb' EXCEPT !.messages = [i \in DOMAIN mb'.messages |->
                                          [mb'.messages[i] EXCEPT !.deleted = FALSE]]]
             = [mb EXCEPT !.messages = [i \in DOMAIN mb.messages |->
                                          [mb.messages[i] EXCEPT !.deleted = FALSE]]]
       /\ (popState = "AUTHORIZATION" /\ popState' = "TRANSACTION") => Unmarked(mb')
       /\ (popState = "TRANSACTION" /\ Unmarked(mb)) =>
             /\ popHandled(STATLines) =>
                   popReplies'[1].nums = <<Len(mb.messages), visibleSize(mb, Len(mb.messages))>>
             /\ popHandled({<<"LIST">>}) =>
                   /\ listedIDs(popReplies') = 1..Len(mb.messages)
                   /\ \A i \in 1..Len(mb.messages) :
                         popReplies'[i + 1].nums = <<i, mb.messages[i].size>>
             /\ popHandled(POP3QUITLines) => files' = files]_vars

\* RSET answered +OK on a full mailbox, every message unmarked
C12_Witness ==
    /\ popState = "TRANSACTION"
    /\ popLine \in POP3RSETLines
    /\ popReplies = <<ok("")>>
    /\ Len(mb.messages) = MaxMsgs
    /\ Unmarked(mb)

\* the file names of the messages of the mailbox marked deleted / not marked
markedNames(box) == {box.messages[i].filename : i \in (1..Len(box.messages)) \ visibleIDs(box)}

unmarkedMessages(box) == SelectSeq(box.messages, LAMBDA m : ~m.deleted)

\* C13: a QUIT handled in TRANSACTION is answered +OK, closes the connection
\* and leaves exactly the files that are not the file of a message marked
\* deleted; the mailbox a following OpenMailbox of the same maildrop builds
\* has, in order, the file names and sizes of the messages that were not
\* marked.
C13_CommitOnQuit ==
    [][(popHandled(POP3QUITLines) /\ popState = "TRANSACTION") =>
          /\ popReplies' = <<ok("goodbye")>>
          /\ popStatus' = "closed"
          /\ files' \subseteq files
          /\ \A f \in files : f \in files' <=> <<f.dir, f.name>> \notin markedNames(mb)
          /\ LET next == (openMailbox(maildropForAddress(user), TRUE).mb.messages)'
                 kept == unmarkedMessages(mb)
             IN  /\ Len(next) = Len(kept)
                 /\ \A i \in 1..Len(kept) :
                       /\ next[i].filename = kept[i].filename
                       /\ next[i].size = kept[i].size
                       /\ ~next[i].deleted]_vars

\* C13, with os.Remove allowed to fail: a QUIT handled in TRANSACTION is
\* answered +OK, closes the connection, removes only files of messages marked
\* deleted and keeps every other file; the mailbox a following OpenMailbox of
\* the same maildrop builds has, in order, the file names and sizes of the
\* messages whose files are left: those not marked and those whose unlink
\* failed.
C13_CommitWhatUnlinks ==
    [][(popHandled(POP3QUITLines) /\ popState = "TRANSACTION") =>
          /\ popReplies' = <<ok("goodbye")>>
          /\ popStatus' = "closed"
          /\ files' \subseteq files
          /\ \A f \in files : <<f.dir, f.name>> \notin markedNames(mb) => f \in files'
          /\ LET next == (openMailbox(maildropForAddress(user), TRUE).mb.messages)'
                 kept == SelectSeq(mb.messages,
                             LAMBDA m : \E f \in files' : <<f.dir, f.name>> = m.filename)
             IN  next = [i \in 1..Len(kept) |->
                            [filename |-> kept[i].filename, index |-> i - 1,
                             size |-> kept[i].size, deleted |-> FALSE]]]_vars

\* a session closed by QUIT with two messages marked and one not: the file of
\* one marked message is gone, the other could not be removed
C13_Witness ==
    /\ popStatus = "closed"
    /\ popLine \in POP3QUITLines
    /\ popState = "TRANSACTION"
    /\ Cardinality(markedNames(mb)) = 2
    /\ Len(unmarkedMessages(mb)) = 1
    /\ Cardinality({f \in files : <<f.dir, f.name>> \in markedNames(mb)}) = 1
    /\ \A m \in Range(unmarkedMessages(mb)) : \E f \in files : <<f.dir, f.name>> = m.filename

\* C14: the only step of a POP3 session that changes the maildrops is a QUIT
\* handled in TRANSACTION; a read error (the client went away), a QUIT in
\* AUTHORIZATION and every other command leave every file as it was,
\* whatever messages are marked deleted.
C14_NoCommitWithoutQuit ==
    [][/\ files' # files => (popHandled(POP3QUITLines) /\ popState = "TRANSACTION")
       /\ (popStatus = "open" /\ popStatus' # "open"
             /\ ~(popHandled(POP3QUITLines) /\ popState = "TRANSACTION")) => files' = files]_vars

\* a session ended by a read error with a message marked: every file is still there
C14_Witness ==
    /\ popStatus = "closed"
    /\ popReplies = <<>>
    /\ popState = "TRANSACTION"
    /\ markedNames(mb) # {}
    /\ Len(mb.messages) = MaxMsgs
    /\ {<<f.dir, f.name>> : f \in files} = {m.filename : m \in Range(mb.messages)}

\* the content RETR wrote, <<>> when it wrote none
retrieved(rs) == IF Len(rs) = 2 /\ rs[2].kind = "data" THEN rs[2].data ELSE <<>>

\* C15: a message DeliverMessage wrote after the session's OpenMailbox is
\* outside the session: no delivery changes the mailbox of the session, whose
\* STAT, LIST and UIDL answer from it alone; no message of the mailbox has the
\* file of such a delivery, so none is listed by UIDL, retrieved by RETR or
\* marked by DELE; and QUIT leaves every such file in place.
C15_SnapshotIsolation ==
    /\ [](popState = "TRANSACTION" =>
             \A i \in 1..Len(mb.messages) : mb.messages[i].filename \notin arrived)
    /\ [][/\ mb' # mb => popHandled(PASSLines \cup DELELines \cup POP3RSETLines)
          /\ (popHandled(RETRLines) /\ retrieved(popReplies') # <<>>) =>
                \A f \in files : <<f.dir, f.name>> \in arrived =>
                    retrieved(popReplies') # <<f.content>>
          /\ popHandled(POP3QUITLines) =>
                \A f \in files : <<f.dir, f.name>> \in arrived => f \in files']_vars

(***************************************************************************)
(* Properties of the server callbacks.                                     *)
(***************************************************************************)
\* the server entries whose account and password are the ones of the call
matching == {i \in 1..Len(Servers) : /\ call.fn = "OpenMailbox"
                                    /\ call.user = MailboxAccount \o Servers[i].Domain
                                    /\ call.pass = Servers[i].MailboxPassword}

opened == result.fn = "OpenMailbox" /\ result.out.err = ""

\* the names of the files of a maildrop
namesIn(dir) == {f.name : f \in {g \in files : g.dir = dir}}

\* C16, without the condition on the directory: OpenMailbox succeeds exactly when a server entry has the
\* account and the password of the call.
C16_SucceedsIffCredentials ==
    result.fn = "OpenMailbox" => (opened <=> matching # {})

\* C16: OpenMailbox succeeds exactly when a server entry has the account
\* "mailbox@" + Domain and the password of the call and the directory of its
\* maildrop can be read; with no such entry it answers permission denied; the
\* password of one entry never opens the mailbox of another, and the mailbox
\* opened has the files of the maildrop of the matching entry, one message
\* per file.
C16_OpenMailboxAuth ==
    result.fn = "OpenMailbox" =>
        /\ opened <=> (matching # {} /\ result.readable)
        /\ matching = {} => result.out = [err |-> "permission denied", mb |-> NoMailbox]
        /\ opened =>
              \A i \in matching :
                  LET msgs == result.out.mb.messages
                  IN  /\ ~result.out.mb.nil
                      /\ Len(msgs) = Cardinality(namesIn(Servers[i].MaildropPath))
                      /\ \A k \in 1..Len(msgs) :
                            /\ msgs[k].filename[1] = Servers[i].MaildropPath
                            /\ msgs[k].filename[2] \in namesIn(Servers[i].MaildropPath)
                            /\ \A j \in 1..(k - 1) : msgs[j].filename # msgs[k].filename

\* the mailbox of foo.com opened with its password: one message, of its maildrop
C16_Witness ==
    /\ opened
    /\ call.user = <<"mailbox", "@", "foo.com">>
    /\ call.pass = <<"pw2">>
    /\ Len(result.out.mb.messages) = 1
    /\ Cardinality(namesIn("drop1")) = MaxMsgs

\* C17: Authenticate returns true exactly when a server entry has the account
\* "mailbox@" + Domain equal to authc and the password passwd, and authz is
\* empty or parses as an address whose domain is that Domain; so it returns
\* false for an authc that does not parse and for an authz of another domain.
C17_Authenticate ==
    result.fn = "Authenticate" =>
        /\ result.out <=>
              \E i \in 1..Len(Servers) :
                  /\ call.authc = MailboxAccount \o Servers[i].Domain
                  /\ call.passwd = Servers[i].MailboxPassword
                  /\ \/ call.authz = <<>>
                     \/ /\ ParseAddress(call.authz) # ParseError
                        /\ DomainForAddress(ParseAddress(call.authz)) = Servers[i].Domain
        /\ ParseAddress(call.authc) = ParseError => ~result.out

\* accepted: the account of example.com sending as jones@example.com
C17_Witness ==
    /\ result.fn = "Authenticate"
    /\ result.out
    /\ call.authz = <<"<", "jones", "@", "example.com", ">">>
    /\ call.authc = <<"mailbox", "@", "example.com">>

(***************************************************************************)
(* Properties of the MTA.                                                  *)
(***************************************************************************)
\* the step of RelayMessage for the recipient at result.next
relayed == result.fn = "RelayMessage" /\ result'.events # result.events

theEvent == result'.events[Len(result'.events)]

\* C18: when a step of the relay to one recipient fails (dial, HELO, STARTTLS,
\* MAIL FROM, RCPT TO, DATA, writing or closing the data), exactly one envelope
\* is handed to DeliverMessage for that recipient: to the original sender, from
\* mailbox@ the sender's domain, its report naming the recipient and its body
\* being the original data; it is written to the sender's maildrop when the
\* file can be created; a relay that completes every step hands over none.
C18_RelayFailureDSN ==
    [][relayed =>
          /\ Len(result'.events) = Len(result.events) + 1
          /\ theEvent.to = call.env.RcptTo[result.next]
          /\ theEvent.outcome \in RelayErrors =>
                /\ Len(theEvent.dsn) = 1
                /\ theEvent.dsn[1].RcptTo = <<call.env.MailFrom>>
                /\ theEvent.dsn[1].MailFrom
                      = <<"mailbox", "@">> \o DomainForAddress(call.env.MailFrom)
                /\ theEvent.dsn[1].Data.body = <<call.env.Data>>
                /\ theEvent.dsn[1].Data.trace.failed = theEvent.to
                /\ \A f \in files' \ files :
                      /\ f.dir = maildropForAddress(call.env.MailFrom)
                      /\ f.content.Data.body = <<call.env.Data>>
          /\ theEvent.outcome = "sent" =>
                /\ theEvent.dsn = <<>>
                /\ files' = files]_vars

\* the second recipient's DATA failed after the first was sent: one DSN, in the
\* maildrop of the sender's domain
C18_Witness ==
    /\ result.fn = "RelayMessage"
    /\ Len(result.events) = 2
    /\ result.events[1].outcome = "sent"
    /\ result.events[2].outcome = "failed to DATA"
    /\ Len(result.events[2].dsn) = 1
    /\ call.env.MailFrom = <<"sales", "@", "foo.com">>
    /\ \E f \in files : f.dir = "drop2" /\ f.content.DeliveredTo = <<"sales", "@", "foo.com">>

\* C19: RelayMessage deals with every recipient of the envelope, in order: for
\* each it either relays the message or hands over a DSN naming that
\* recipient, a failed or empty MX lookup giving a DSN too; and when it has
\* returned, it has dealt with all of them.
C19_EveryRecipient ==
    result.fn = "RelayMessage" =>
        /\ \A k \in 1..Len(result.events) :
              /\ result.events[k].to = call.env.RcptTo[k]
              /\ \/ result.events[k].outcome = "sent"
                 \/ /\ Len(result.events[k].dsn) = 1
                    /\ result.events[k].dsn[1].Data.trace.failed = result.events[k].to
        /\ result.status # "running" => Len(result.events) = Len(call.env.RcptTo)

(***************************************************************************)
(* Properties of the delivery into the maildrops.                          *)
(***************************************************************************)
\* C20: DeliverMessage creates the message file exclusively: a DATA whose
\* envelope has the id of a file already in the maildrop of its first
\* recipient is answered 550 and leaves the files as they were, and no step
\* of the SMTP connection removes or changes a file that exists.
C20_ExclusiveCreate ==
    [][/\ \A i \in 1..Len(handed') :
             LET en == handed'[i].env
             IN  (\E f \in files : /\ f.dir = maildropForAddress(en.RcptTo[1])
                                   /\ f.name = en.ID) =>
                     /\ LastCode(replies') = ReplyBadMailbox
                     /\ files' = files
       /\ files \subseteq files']_vars

\* smtpServer.run after its first loadTLSConfig and net.Listen: tlsConfig is
\* the number of the configuration server.tlsConfig points to (0 for nil),
\* stale the one it pointed to before the last reload
InitReload ==
    /\ smtpAccepted
    /\ tlsConfig = TRUE
    /\ popAccepted
    /\ arrived = {}
    /\ files = {}
    /\ call = [fn |-> "run", tlsConfig |-> 1, stale |-> 1, reloads |-> 0, running |-> TRUE]
    /\ result = [fn |-> "run", conns |-> <<>>]

\* case <-reloadChan: loadTLSConfig assigns server.tlsConfig the new
\* configuration, or nil when GetTLSConfig fails, and then run returns
run_reload ==
    \E loaded \in BOOLEAN :
        /\ call.running
        /\ call.reloads < MaxReloads
        /\ call' = [call EXCEPT !.stale = call.tlsConfig,
                                !.tlsConfig = IF loaded THEN call.reloads + 2 ELSE 0,
                                !.reloads = call.reloads + 1,
                                !.running = loaded]
        /\ UNCHANGED <<smtpVars, popVars, files, arrived, result>>

\* case conn, ok := <-connChan: go smtp.AcceptConnection(conn, server, log).
\* The connection keeps the server, not a configuration; accepted records
\* the configuration that was current. The client then sends EHLO.
run_accept ==
    /\ call.running
    /\ Len(result.conns) < MaxConns
    /\ result' = [result EXCEPT !.conns = Append(result.conns,
                      [accepted |-> call.tlsConfig, tls |-> 0, code |-> 250, open |-> TRUE])]
    /\ UNCHANGED <<smtpVars, popVars, files, arrived, call>>

\* connection.doSTARTTLS of connection i in state Initial after EHLO:
\* conn.server.TLSConfig() reads server.tlsConfig while run may be writing it,
\* without synchronisation, so it gets the current configuration or the one
\* before it if that was written after the connection started
conn_doSTARTTLS(i) ==
    \E cfg \in {call.tlsConfig, call.stale}, handshake \in BOOLEAN :
        /\ result.conns[i].tls = 0
        /\ cfg = call.tlsConfig \/ cfg >= result.conns[i].accepted
        /\ result' = [result EXCEPT !.conns[i] =
                         IF cfg = 0 THEN [@ EXCEPT !.code = 500]
                         ELSE IF handshake THEN [@ EXCEPT !.code = 220, !.tls = cfg]
                         ELSE [@ EXCEPT !.code = 220]]
        /\ UNCHANGED <<smtpVars, popVars, files, arrived, call>>

NextReload ==
    \/ run_reload
    \/ run_accept
    \/ \E i \in 1..Len(result.conns) : conn_doSTARTTLS(i)

SpecReload == InitReload /\ [][NextReload]_vars

\* the process after main has called runPOP3Server once: call holds main's
\* channel variable pop3 (the number of the server it receives from), the
\* SIGHUPs so far and the POP3 servers started; result holds the POP3
\* sessions. A server has the position of its run (start, select,
\* sendRestart, sendFatal, returned), its listener (none, open, closed), the
\* content of its reloadChan (capacity 1) and its connChan.
InitPOP3Reload ==
    /\ smtpAccepted
    /\ tlsConfig = TRUE
    /\ popAccepted
    /\ arrived = {}
    /\ files = {}
    /\ call = [fn |-> "main", pop3 |-> 1, sighups |-> 0,
               servers |-> <<[pc |-> "start", listener |-> "none", reload |-> 0,
                              connChan |-> "open"]>>]
    /\ result = [fn |-> "main", conns |-> <<>>]

\* a SIGHUP: signal.Notify sends without blocking to the reloadChan of every
\* server that has called CreateReloadSignal
SIGHUP ==
    /\ call.sighups < MaxReloads
    /\ call' = [call EXCEPT
                  !.sighups = call.sighups + 1,
                  !.servers = [i \in 1..Len(call.servers) |->
                                 IF call.servers[i].pc \in {"start", "returned"}
                                   THEN call.servers[i]
                                   ELSE [call.servers[i] EXCEPT !.reload = 1]]]
    /\ UNCHANGED <<smtpVars, popVars, files, arrived, result>>

\* one step of pop3Server.run of server i: newListener (net.Listen fails
\* while another listener has the port, and when GetTLSConfig fails) and the
\* start of the accept loop, or one case of its select; in both cases with
\* a send the run then waits in that send
pop3Server_run(i) ==
    LET srv == call.servers[i]
    IN  /\ i \in 1..Len(call.servers)
        /\ \/ /\ srv.pc = "start"
              /\ \E listened \in BOOLEAN :
                    /\ listened => \A j \in 1..Len(call.servers) :
                                       call.servers[j].listener # "open"
                    /\ call' = [call EXCEPT !.servers[i] =
                                  IF listened
                                    THEN [srv EXCEPT !.pc = "select", !.listener = "open"]
                                    ELSE [srv EXCEPT !.pc = "sendFatal"]]
              /\ UNCHANGED result
           \/ /\ srv.pc = "select"
              /\ srv.reload = 1
              /\ call' = [call EXCEPT !.servers[i] =
                            [srv EXCEPT !.reload = 0, !.listener = "closed",
                                        !.pc = "sendRestart"]]
              /\ UNCHANGED result
           \/ /\ srv.pc = "select"
              /\ srv.connChan = "conn"
              /\ call' = [call EXCEPT !.servers[i].connChan = "open"]
              /\ result' = [result EXCEPT !.conns =
                              Append(result.conns, [server |-> i, open |-> TRUE])]
           \/ /\ srv.pc = "select"
              /\ srv.connChan = "closed"
              /\ call' = [call EXCEPT !.servers[i].pc = "sendFatal"]
              /\ UNCHANGED result
        /\ UNCHANGED <<smtpVars, popVars, files, arrived>>

\* RunAcceptLoop of server i: l.Accept() returns a connection, which waits in
\* c <- conn, or fails because the listener is closed, and the loop closes c
RunAcceptLoop(i) ==
    /\ i \in 1..Len(call.servers)
    /\ call.servers[i].connChan = "open"
    /\ \/ /\ call.servers[i].listener = "open"
          /\ Len(result.conns) + Cardinality({j \in 1..Len(call.servers) :
                                                call.servers[j].connChan = "conn"}) < MaxConns
          /\ call' = [call EXCEPT !.servers[i].connChan = "conn"]
       \/ /\ call.servers[i].listener = "closed"
          /\ call' = [call EXCEPT !.servers[i].connChan = "closed"]
    /\ UNCHANGED <<smtpVars, popVars, files, arrived, result>>

\* main treating ServerControlRestart like every other message: no new server
main_control_noRestart ==
    LET srv == call.servers[call.pop3]
    IN  /\ srv.pc \in {"sendRestart", "sendFatal"}
        /\ call' = [call EXCEPT !.servers[call.pop3].pc =
                      IF srv.listener = "none" THEN "returned" ELSE "select"]
        /\ UNCHANGED <<smtpVars, popVars, files, arrived, result>>

\* the select of main: it receives from the channel its variable pop3 holds;
\* on ServerControlRestart it calls runPOP3Server and keeps the new channel,
\* on any other message it breaks out of the select. The sender goes on: a
\* run that failed to listen returns, the others go back to their select.
main_control ==
    LET srv == call.servers[call.pop3]
    IN  /\ srv.pc \in {"sendRestart", "sendFatal"}
        /\ call' = IF srv.pc = "sendRestart"
                     THEN [call EXCEPT
                             !.pop3 = Len(call.servers) + 1,
                             !.servers = Append([call.servers EXCEPT ![call.pop3].pc = "select"],
                                                [pc |-> "start", listener |-> "none",
                                                 reload |-> 0, connChan |-> "open"])]
                     ELSE [call EXCEPT !.servers[call.pop3].pc =
                             IF srv.listener = "none" THEN "returned" ELSE "select"]
        /\ UNCHANGED <<smtpVars, popVars, files, arrived, result>>

\* pop3.AcceptConnection of session k returns: QUIT, or a failed ReadLine
AcceptConnection_returns(k) ==
    /\ k \in 1..Len(result.conns)
    /\ result.conns[k].open
    /\ result' = [result EXCEPT !.conns[k].open = FALSE]
    /\ UNCHANGED <<smtpVars, popVars, files, arrived, call>>

NextPOP3Reload ==
    \/ SIGHUP
    \/ \E i \in 1..(MaxReloads + 1) : pop3Server_run(i)
    \/ \E i \in 1..(MaxReloads + 1) : RunAcceptLoop(i)
    \/ main_control
    \/ \E k \in 1..MaxConns : AcceptConnection_returns(k)

\* the goroutines of the servers, of their accept loops and of main are
\* scheduled; signals and clients come when they come
SpecPOP3Reload ==
    /\ InitPOP3Reload
    /\ [][NextPOP3Reload]_vars
    /\ \A i \in 1..(MaxReloads + 1) :
          /\ WF_vars(pop3Server_run(i))
          /\ WF_vars(RunAcceptLoop(i) /\ call'.servers[i].connChan = "closed")
    /\ WF_vars(main_control)

\* the step in which DeliverMessage returns
delivered == call.fn = "DeliverMessage" /\ result' # result

\* the file DeliverMessage is to write for the envelope of the call: named by
\* the id, in the maildrop of the domain of the first recipient, holding the
\* Delivered-To line, the Return-Path line and the data
theFile(f) ==
    /\ f.name = call.env.ID
    /\ \E i \in 1..Len(Servers) :
          /\ Servers[i].Domain = DomainForAddress(call.env.RcptTo[1])
          /\ f.dir = Servers[i].MaildropPath
    /\ f.content = [DeliveredTo |-> call.env.RcptTo[1], ReturnPath |-> call.env.MailFrom,
                    Data |-> call.env.Data]

\* DeliverMessage returned nil and wrote theFile and nothing else
wroteOneFile ==
    /\ result'.out = 0
    /\ \E f \in files' :
          /\ theFile(f)
          /\ files' \ {f} = {g \in files : ~(g.dir = f.dir /\ g.name = f.name)}

refused == result'.out = ReplyBadMailbox /\ files' = files

inConfiguredDomain ==
    \E i \in 1..Len(Servers) : Servers[i].Domain = DomainForAddress(call.env.RcptTo[1])

blankLine(d) ==
    IF \E i \in 1..(Len(d)-1) : d[i] = "\n" /\ d[i+1] = "\n"
      THEN CHOOSE i \in 1..(Len(d)-1) : /\ d[i] = "\n" /\ d[i+1] = "\n"
                                        /\ \A j \in 1..(i-1) : ~(d[j] = "\n" /\ d[j+1] = "\n")
      ELSE 0

\* the header lines of a message, without their line ends, and the rest of it
headerLines(d) == IF blankLine(d) = 0 THEN Split(d, "\n")
                  ELSE Split(SubSeq(d, 1, blankLine(d) - 1), "\n")

fromBlankLine(d) == SubSeq(d, blankLine(d), Len(d))

linesNamed(d, name) == {i \in 1..Len(headerLines(d)) : headerLines(d)[i][1] = name}

\* RelayMessage has handed an envelope to the MTA
relayedToMTA == call.fn = "RelayMessage" /\ result.fn = "RelayMessage"

\* the line holds "<", the address and ">" in a row
carries(l, addr) ==
    \E i \in 1..Len(l) : SubSeq(l, i, i + Len(addr) + 1) = <<"<">> \o addr \o <<">">>

\* the message has one Subject header, which holds a tag, and one From header
\* with an address in angle brackets
taggedSubject(d) ==
    /\ blankLine(d) # 0
    /\ \E i \in 1..Len(headerLines(d)) :
          /\ linesNamed(d, "Subject:") = {i}
          /\ sendAsSubject(headerLines(d)[i]).s0 # 0
    /\ \E i \in 1..Len(headerLines(d)) :
          /\ linesNamed(d, "From:") = {i}
          /\ \E k \in 1..Len(headerLines(d)[i]) : headerLines(d)[i][k] = "<"

\* the envelope handed over has the address of the tag as mail_from and in the
\* From header, the tag cut out of the Subject header, and the recipients and
\* the other header lines of the envelope submitted
rewritten ==
    LET hin == headerLines(call.env.Data)
        hout == headerLines(result.out.Data)
        subj == CHOOSE i \in linesNamed(call.env.Data, "Subject:") : TRUE
        tag == sendAsSubject(hin[subj])
        addr == <<tag.user, "@">> \o DomainForAddressString(call.authc)
    IN  /\ result.out.MailFrom = addr
        /\ result.out.RcptTo = call.env.RcptTo
        /\ Len(hout) = Len(hin)
        /\ \A i \in 1..Len(hin) :
              IF i = subj
                THEN hout[i] = SubSeq(hin[i], 1, tag.s0 - 1) \o SubSeq(hin[i], tag.s1, Len(hin[i]))
              ELSE IF i \in linesNamed(call.env.Data, "From:")
                THEN hout[i][1] = "From:" /\ carries(hout[i], addr)
              ELSE hout[i] = hin[i]

bodyKept == fromBlankLine(result.out.Data) = fromBlankLine(call.env.Data)

\* C22: when the Subject header of a submitted message holds [sendas:LOCALPART]
\* the envelope handed to the MTA has mail_from LOCALPART@<domain of authc>,
\* its From header carries that address in the angle brackets, its Subject
\* header has the matched tag removed, its rcpt_to and every other header line
\* are unchanged, and the bytes from the first blank line on are unchanged.
C22_SendAsRewrite ==
    (relayedToMTA /\ taggedSubject(call.env.Data)) => (rewritten /\ bodyKept)

\* C23: a submitted message whose Subject header has no tag, or that has no
\* Subject header, is handed to the MTA with the same mail_from, rcpt_to and
\* data.
C23_NoTagUnchanged ==
    (/\ relayedToMTA
     /\ \A i \in linesNamed(call.env.Data, "Subject:") :
           sendAsSubject(headerLines(call.env.Data)[i]).s0 = 0)
    => result.out = call.env

\* the command switch of the SMTP connection on the line l
smtpCommand(l) ==
    \/ doEHLO(l) \/ doSTARTTLS(l) \/ doAUTH(l) \/ doMAIL(l) \/ doRCPT(l) \/ doDATA(l)
    \/ doRSET(l) \/ doQUIT(l) \/ doVRFY(l) \/ doEXPN(l) \/ doNOOP(l) \/ doHELP(l)
    \/ badLine(l) \/ unrecognized(l)

\* the command switch of the POP3 connection on the line l
pop3Command(l) ==
    \/ pop3_doQUIT(l) \/ pop3_doUSER(l) \/ pop3_doPASS(l) \/ pop3_doSTAT(l)
    \/ pop3_doLIST(l) \/ pop3_doRETR(l) \/ pop3_doDELE(l) \/ pop3_doRSET(l)
    \/ pop3_doUIDL(l) \/ pop3_doCAPA(l) \/ pop3_NOOP(l) \/ pop3_badLine(l)
    \/ pop3_unknown(l)

\* C24: a command and the same command with its verb in other letter case get
\* the same reply and lead to the same state: every step that handles a line
\* is also a step of the command switch on each casing of that line.
C24_VerbCase ==
    [][/\ (~UNCHANGED smtpVars /\ ~readError) => \A l2 \in Casings(line') : smtpCommand(l2)
       /\ (~UNCHANGED popVars /\ ~pop3_readError)
            => \A l2 \in Casings(popLine') : pop3Command(l2)]_vars

\* the address as the client wrote it in a line of RecipientLines
asWritten(l) == SubSeq(l, 5, 7)

\* C25: on an unauthenticated session RCPT TO:<addr> is accepted if and only
\* if the domain of addr is a configured Domain and addr is not among the
\* blocked addresses of that domain, compared without regard to letter case;
\* every other recipient is answered with 550.
C25_RecipientPolicy ==
    result.fn = "VerifyAddress" =>
        LET addr == asWritten(call.line)
            allowed == \E i \in 1..Len(Servers) :
                          /\ ToLower(Servers[i].Domain) = ToLower(DomainForAddress(addr))
                          /\ \A k \in 1..Len(Servers[i].BlockedAddresses) :
                                ToLower(Servers[i].BlockedAddresses[k]) # ToLower(addr)
        IN  result.out = IF allowed THEN ReplyOK ELSE ReplyBadMailbox

\* C26: after a reload the new TLS configuration goes to the connections
\* accepted afterwards, a connection accepted before it keeps the configuration
\* that was current when it was accepted, also for a STARTTLS it sends after
\* the reload, and the reload leaves the existing connections as they are.
C26_ReloadKeepsConfig ==
    [][/\ \A i \in 1..Len(result'.conns) :
             result'.conns[i].tls # 0 => result'.conns[i].tls = result'.conns[i].accepted
       /\ call' # call => result' = result]_vars

\* C27: the command loop of an SMTP connection ends exactly when QUIT is
\* received, which is answered 221 and closes, or when reading a line fails;
\* every other line, whether a syntax error, a command out of sequence or an
\* unknown verb, is answered and leaves the connection open, and once the
\* loop has ended no line is processed.
C27_LoopEnds ==
    [][/\ status # "open" => UNCHANGED smtpVars
       /\ (status = "open" /\ ~UNCHANGED smtpVars) =>
             IF replies' = <<>> THEN status' = "closed"
             ELSE IF VerbOf[line'] = <<"QUIT">>
               THEN status' = "closed" /\ Codes(replies') = <<221>>
               ELSE status' = "open"]_vars

\* C28: once a DATA has been accepted with 354 and its exchange is finished,
\* with 250, with an error reply of the delivery or with a failed read of the
\* data, the state is Initial, and a DATA or RCPT that follows it without a
\* new MAIL is answered 503.
C28_DataReturnsToInitial ==
    [][/\ (Handled(DATALines) /\ Codes(replies')[1] = 354 /\ status' = "open") =>
             state' = "Initial"
       /\ (/\ line \in DATALines /\ replies # <<>> /\ Codes(replies)[1] = 354
           /\ status = "open"
           /\ Handled(DATALines \cup RCPTLines)) =>
             Codes(replies') = <<503>>]_vars

\* C29: a RSET, in whatever state it arrives, is answered 250, sets the state
\* to Initial and clears mail_from and rcpt_to; the TLS status, the
\* authenticated identity, the stored EHLO name and the rest of the
\* connection are after it what they were before.
C29_RsetFrame ==
    [][(VerbOf[line'] = <<"RSET">> /\ replies' # <<>>) =>
          /\ Codes(replies') = <<250>>
          /\ state' = "Initial"
          /\ mailFrom' = NoAddr
          /\ rcptTo' = <<>>
          /\ UNCHANGED <<tls, authc, ehlo, esmtp, status, files>>]_vars

\* a RSET answered on an authenticated TLS session
C29_Witness ==
    /\ VerbOf[line] = <<"RSET">>
    /\ Codes(replies) = <<250>>
    /\ state = "Initial"
    /\ tls
    /\ authc # <<>>
    /\ ehlo # <<>>
    /\ mailFrom = NoAddr
    /\ rcptTo = <<>>

\* C30: when STARTTLS has been answered 220 and the handshake then fails
\* (the state is still Initial, where a completed handshake leaves New), the
\* connection is over: no later line is answered and no envelope is handed
\* to a sink or written to a maildrop.
C30_FailedHandshakeEnds ==
    [][(/\ line \in STARTTLSLines
        /\ Codes(replies) = <<220>>
        /\ state = "Initial") =>
          /\ replies' = <<>>
          /\ handed' = <<>>
          /\ files' = files]_vars

\* C31: the protocol token of the Received trace is SMTP after a HELO
\* greeting and ESMTP after an EHLO greeting, with a trailing S exactly when
\* TLS is active; commands other than a greeting leave its first part as it
\* was, and a STARTTLS that follows a HELO greeting is answered 500.
C31_ReceivedToken ==
    [][LET token == getReceivedInfo([ID |-> 1, RcptTo |-> <<NoAddr>>]).with
           base(w) == IF w \in {"SMTP", "SMTPS"} THEN "SMTP" ELSE "ESMTP"
           isGreeting == VerbOf[line'] \in {<<"HELO">>, <<"EHLO">>}
           greeting == isGreeting /\ replies' # <<>> /\ Codes(replies')[1] = 250
       IN  /\ greeting =>
                 token' = (IF VerbOf[line'] = <<"HELO">> THEN "SMTP" ELSE "ESMTP")
                            \o (IF tls' THEN "S" ELSE "")
           /\ ~isGreeting => base(token') = base(token)
           /\ token' \in (IF tls' THEN {"SMTPS", "ESMTPS"} ELSE {"SMTP", "ESMTP"})
           /\ (/\ VerbOf[line] = <<"HELO">> /\ replies # <<>> /\ Codes(replies)[1] = 250
               /\ Handled(STARTTLSLines)) =>
                 Codes(replies') = <<500>>]_vars

\* C32: a QUIT handled in TRANSACTION during which the unlink of a marked
\* message fails (its file is still there afterwards) is answered
\* -ERR failed to remove some messages, and +OK otherwise; in both cases the
\* connection closes, the files whose unlink succeeded stay removed and no
\* other file changes.
C32_CommitFailure ==
    [][(popHandled(POP3QUITLines) /\ popState = "TRANSACTION") =>
          LET unlinkFailed == \E f \in files' : <<f.dir, f.name>> \in markedNames(mb)
          IN  /\ popReplies' = <<IF unlinkFailed THEN err("failed to remove some messages")
                                                ELSE ok("goodbye")>>
              /\ popStatus' = "closed"
              /\ files' \subseteq files
              /\ \A f \in files \ files' : <<f.dir, f.name>> \in markedNames(mb)]_vars

\* C33: the message numbers of a mailbox are 1..N: GetMessage returns the
\* message of that ordinal for a number in 1..N and no message for every
\* other number, and a LIST, RETR or DELE in TRANSACTION with a number outside
\* 1..N is answered with a single -ERR, changes no mark and leaves the
\* connection handler running.
C33_MessageNumbers ==
    [][/\ popState = "TRANSACTION" =>
             \A id \in -1..(MaxMsgs + 1) :
                 GetMessage(mb, id) = IF id \in 1..Len(mb.messages) THEN id ELSE 0
       /\ (/\ popState = "TRANSACTION" /\ popStatus = "open"
           /\ popLine' \in LISTLines \cup RETRLines \cup DELELines
           /\ scanID(popLine').n = 2
           /\ scanID(popLine').id \notin 1..Len(mb.messages)
           /\ popReplies' # <<>> \/ popStatus' = "panicked") =>
             /\ popStatus' = "open"
             /\ Len(popReplies') = 1
             /\ popReplies'[1].kind = "-ERR"
             /\ mb' = mb]_vars

\* C34: once the Send-As rewrite has changed a submitted message, no Subject
\* header of the rewritten header block holds a [sendas:...] tag, and
\* applying the rewrite to the rewritten envelope changes neither mail_from
\* nor the data.
C34_SendAsIdempotent ==
    (relayedToMTA /\ result.out # call.env) =>
        /\ \A i \in linesNamed(result.out.Data, "Subject:") :
               sendAsSubject(headerLines(result.out.Data)[i]).s0 = 0
        /\ handleSendAs(result.out, call.authc) = result.out

\* the listeners that accept connections
listening == {i \in 1..Len(call.servers) : call.servers[i].listener = "open"}

\* the servers whose newListener failed
failedToListen == {i \in 1..Len(call.servers) :
                     call.servers[i].listener = "none" /\ call.servers[i].pc # "start"}

C36_NoRecipientLeak ==
    [][/\ (Handled(MAILLines) /\ Codes(replies') = <<250>>) => rcptTo' = <<>>
       /\ rcptTo' # rcptTo =>
             \/ rcptTo' = <<>>
             \/ /\ Handled(RCPTLines)
                /\ Codes(replies') = <<250>>
                /\ rcptTo' = Append(rcptTo, rcptPath(line'))
       /\ \A i \in 1..Len(handed') : handed'[i].env.RcptTo = rcptTo]_vars

\* C37: on a connection where no HELO/EHLO has succeeded since it was
\* accepted or since the last successful STARTTLS, a MAIL is answered 503
\* and starts no transaction, whatever commands came before, and no envelope
\* is handed to a sink.
C37_NoMailWithoutGreeting ==
    [][/\ (Handled(MAILLines) /\ ~greeted) =>
             /\ Codes(replies') = <<503>>
             /\ state' = state
             /\ mailFrom' = mailFrom
       /\ handed' # <<>> => greeted]_vars

\* C38: once TLS is active on a connection a STARTTLS is refused: it is not
\* answered 220, no handshake is started and the state stays what it was.
C38_StartTLSOnce ==
    [][(Handled(STARTTLSLines) /\ tls) =>
          /\ 220 \notin Range(Codes(replies'))
          /\ state' = state
          /\ greeted' = greeted]_vars

\* C39: RelayMessage returns for every envelope; it takes at most one turn
\* per recipient and hands over at most one DSN in each, every turn is for a
\* recipient of the envelope and never for the recipient of a DSN, and a DSN
\* that DeliverMessage could not write is followed by no further DSN.
C39_RelayTerminates ==
    /\ <>(result.status = "done")
    /\ [](/\ Len(result.events) <= Len(call.env.RcptTo)
          /\ \A k \in 1..Len(result.events) :
                /\ Len(result.events[k].dsn) <= 1
                /\ result.events[k].to = call.env.RcptTo[k])
    /\ [][relayed =>
             /\ Len(result'.events) = Len(result.events) + 1
             /\ result'.status = "running" => result'.next = result.next + 1
             /\ \A f \in files' \ files :
                   \E d \in Range(theEvent.dsn) : f.content = WriteEnvelopeForDelivery(d)]_vars

\* C40: every message of a POP3 snapshot is a completely written file, and the
\* size the snapshot records is the size of the file's contents, whatever the
\* interleaving of DeliverMessage with OpenMailbox, STAT and RETR and also when
\* a delivery stops before the whole message is written.
C40_NoHalfWritten ==
    (popState = "TRANSACTION" /\ ~mb.nil) =>
        \A i \in 1..Len(mb.messages) : \A f \in files :
            <<f.dir, f.name>> = mb.messages[i].filename =>
                /\ \E e \in {storedEnvelope(f.name), arrivingEnvelope(f.name)} :
                      f.content = WriteEnvelopeForDelivery(e)
                /\ f.size = FileSize(f.content)
                /\ mb.messages[i].size = f.size

====
